---- MODULE Spec2Model ----
(***************************************************************************)
(* Model of the agentic retrieval and search orchestration engine:         *)
(*   - AgenteBuscador.run, the ReAct loop (src/agents/buscador/agent.py)   *)
(*   - AgentRetrieval.retrieve, the full-document judge retrieval, and     *)
(*     AgentRetrieval.retrieve_with_index, the index-guided retrieval      *)
(*     (src/rag/agent_based/retrieval.py)                                  *)
(*   - DocumentIndexer.index_document and the bulk indexing job            *)
(*     (src/rag/agent_based/indexer.py, scripts/index_documents.py)        *)
(*   - AgenteAsistente.run (src/agents/asistente/agent.py)                 *)
(*   - SQLQueryTool, ReadDocumentTool and ListDocumentsTool (src/tools)    *)
(* The language-model Gateway and the tools' results are external: every   *)
(* response they can give is drawn from a small set.                       *)
(***************************************************************************)
EXTENDS Integers, Sequences, FiniteSets, TLC

VARIABLES
    \* ---- AgenteBuscador.run ----
    b_pc,            \* "idle" | "running" | "returned" | "raised"
    max_iterations,  \* self.max_iterations
    iteration,       \* the for-loop index (0-based) of the next iteration
    observations,    \* the observation list of this run
    current_plan,    \* None or the plan text
    response,        \* <<>> or <<AgentResponse>>
    b_result,        \* <<>> or <<what generate gave the last action step>>
    fault,           \* what raised out of run, "none" if nothing did
    gateway_log,     \* the Gateway calls issued by this run, in order
    \* ---- AgentRetrieval.retrieve / retrieve_with_index ----
    r_pc,            \* "idle" | "phase1" | "phase2" | "phase3" | "judging"
                     \*   | "returned" | "raised"
    indices_dir,     \* the index directory: exists, and the files in it
    documents_dir,   \* the documents directory: exists, and how many documents
    entry,           \* which method the caller invoked
    k,               \* retrieve's k
    indices,         \* retrieve_with_index: the loaded indices, by document_id
    relevant_docs,   \* Phase 1's result: document ids, in order
    doc_idx,         \* Phase 2's position in relevant_docs
    selected,        \* Phase 2's section_ids per processed document
    all_sections,    \* the section contents loaded so far
    documents,       \* retrieve: the documents read
    evaluations,     \* retrieve: per document, <<>> or <<evaluation>>
    r_result,        \* <<>> or <<the dict returned>>
    r_error,         \* the exception that escaped, "none" if none did
    r_log,           \* Gateway calls and content reads, in order
    responses,       \* the Gateway's answers to Phase 1, 2 (per document), 3
    malformed,       \* retrieve: per document, was its evaluation's answer
                     \*   an error or malformed ("pending" before it arrives)
    reordered,       \* retrieve: some evaluation completed while the one of
                     \*   an earlier document was still pending
    \* ---- AgentRAGIndexer.index_document and the bulk indexing job ----
    i_pc,            \* "idle" | "batches" | "global" | "returned" | "raised"
                     \*   | "skipped"
    pdf,             \* the source PDF: exists, stem, code, words per page
    out_dir,         \* the files of the output directory
    clock,           \* datetime.utcnow(), one tick per call of index_document
    caller,          \* "direct" | "job": who called index_document
    batch_size,      \* index_document's batch_size
    i_pages,         \* the pages read: [page_num, words]
    i_batches,       \* _create_batches' result
    i_sections,      \* the sections summarized so far
    i_index,         \* <<>> or <<the index returned>>
    i_error,         \* the exception that escaped index_document
    i_log,           \* the Gateway calls of the current call, in order
    history,         \* the finished runs of the bulk job, in order
    \* ---- AgenteAsistente.run ----
    a_pc,            \* "idle" | "classify" | "generate" | "returned" | "raised"
    agentic_rag,     \* self.agentic_rag
    use_checklist,   \* run's use_checklist
    a_retrieval,     \* <<>> or <<retrieval_result>>
    a_response,      \* <<>> or <<AgentResponse>>
    a_error,         \* the exception that escaped run, "none" if none did
    a_log,           \* the tool and Gateway calls of run, in order
    \* ---- SQLQueryTool, ListDocumentsTool, ReadDocumentTool ----
    t_calls,         \* how many times a tool's execute was called
    sql_pending,     \* <<>> or <<the statement conn.fetch is running>>
    sql_sent,        \* the statements sent to the database, in order
    t_result,        \* <<>> or <<what the last execute returned>>
    fs,              \* the base directory: exists, and its files
    opened,          \* the files read_document opened, in order
    \* ---- ModelProvider's tool registry, shared by the agents built on it ----
    _registered_tools, \* tool name -> tool instance
    agents,          \* the agents constructed on the provider, in order
    dispatched       \* <<>> or <<the last function call an action step got>>

bvars == <<b_pc, max_iterations, iteration, observations, current_plan,
           response, b_result, fault, gateway_log>>

rvars == <<r_pc, indices_dir, documents_dir, entry, k, indices, relevant_docs,
           doc_idx, selected, all_sections, documents, evaluations, r_result,
           r_error, r_log, responses, malformed, reordered>>

ivars == <<i_pc, pdf, out_dir, clock, caller, batch_size, i_pages,
           i_batches, i_sections, i_index, i_error, i_log, history>>

\* the components other than the ReAct loop and the retrieval
avars == <<a_pc, agentic_rag, use_checklist, a_retrieval, a_response, a_error,
           a_log>>

gvars == <<_registered_tools, agents, dispatched>>

tvars == <<t_calls, sql_pending, sql_sent, t_result, fs, opened, gvars>>

xvars == <<ivars, avars, tvars>>

vars == <<b_pc, max_iterations, iteration, observations, current_plan,
          response, b_result, fault, gateway_log,
          r_pc, indices_dir, documents_dir, entry, k, indices, relevant_docs,
          doc_idx, selected, all_sections, documents, evaluations, r_result,
          r_error, r_log, responses, malformed, reordered,
          i_pc, pdf, out_dir, clock, caller, batch_size, i_pages,
          i_batches, i_sections, i_index, i_error, i_log, history,
          a_pc, agentic_rag, use_checklist, a_retrieval, a_response, a_error,
          a_log,
          t_calls, sql_pending, sql_sent, t_result, fs, opened,
          _registered_tools, agents, dispatched>>

(***************************************************************************)
(* Bounds and program constants                                            *)
(***************************************************************************)
MaxIter == 4

MaxDocs == 3

MaxK == 3

MAX_ITERATIONS == 10

MAX_LOOP_REPEATS == 3

(***************************************************************************)
(* Python helpers                                                          *)
(***************************************************************************)
None == "None"

\* dict.get(key, default)
Get(d, key, default) == IF key \in DOMAIN d THEN d[key] ELSE default

\* str.strip() on a text given as a sequence of characters
RECURSIVE LStrip(_)
LStrip(s) == IF s # <<>> /\ Head(s) = " " THEN LStrip(Tail(s)) ELSE s

RECURSIVE RStrip(_)
RStrip(s) ==
    IF s # <<>> /\ s[Len(s)] = " " THEN RStrip(SubSeq(s, 1, Len(s) - 1)) ELSE s

\* str.strip that strips nothing
Strip_Nothing(s) == s

Strip(s) == RStrip(LStrip(s))

\* the order of the argument names under Python's string comparison
KeyOrder ==
    <<"confidence", "file_type", "filename", "filter_pattern", "query", "summary">>

KeyRank(key) == CHOOSE i \in 1..Len(KeyOrder) : KeyOrder[i] = key

\* sorted(args.items()): the (key, value) pairs ordered by key
RECURSIVE InsertItem(_, _)
InsertItem(item, sorted) ==
    IF sorted = <<>> THEN <<item>>
    ELSE IF KeyRank(item[1]) < KeyRank(Head(sorted)[1])
         THEN <<item>> \o sorted
         ELSE <<Head(sorted)>> \o InsertItem(item, Tail(sorted))

RECURSIVE SortedItems(_)
SortedItems(args) ==
    IF args = <<>> THEN <<>>
    ELSE InsertItem(Head(args), SortedItems(Tail(args)))

HasKey(args, key) == \E i \in 1..Len(args) : args[i][1] = key

ArgValue(args, key, default) ==
    IF HasKey(args, key)
    THEN args[CHOOSE i \in 1..Len(args) : args[i][1] = key][2]
    ELSE default

(***************************************************************************)
(* The tools (external collaborators) and the Gateway's responses          *)
(***************************************************************************)
Query == "q"

RegisteredTools == {"sql_query", "list_documents", "read_document", "finish"}

\* FinishTool.execute that drops the confidence it was given
FinishExecute_DropsConfidence(args) ==
    [summary |-> ArgValue(args, "summary", ""),
     sources |-> <<>>,
     confidence |-> "medium",
     finished |-> TRUE]

\* FinishTool.execute(summary, sources=None, confidence="medium")
FinishExecute(args) ==
    [summary |-> ArgValue(args, "summary", ""),
     sources |-> <<>>,
     confidence |-> ArgValue(args, "confidence", "medium"),
     finished |-> TRUE]

\* the calls the model may select: tool name and arguments in the order given
SqlArgs == <<<<"query", "select1">>>>

ListArgsA == <<<<"filter_pattern", "jub">>, <<"file_type", "pdf">>>>

ListArgsB == <<<<"file_type", "pdf">>, <<"filter_pattern", "jub">>>>

ReadArgs == <<<<"filename", "doc.pdf">>>>

FinishArgs == <<<<"summary", "done">>, <<"confidence", "high">>>>

\* what each tool's execute() may return
SqlOutputs ==
    {[error |-> "Query invalida", results |-> <<>>, count |-> 0],
     [results |-> <<>>, count |-> 0],
     [results |-> <<"r1", "r2">>, count |-> 2]}

ListOutputs == {[documents |-> <<"doc.pdf">>, count |-> 1]}

ReadOutputs ==
    {[filename |-> "doc.pdf", content |-> "texto"],
     [error |-> "Archivo no encontrado"]}

ToolCalls ==
    {[tool_name |-> "sql_query", arguments |-> SqlArgs, result |-> o] :
        o \in SqlOutputs}
    \cup {[tool_name |-> "list_documents", arguments |-> a, result |-> o] :
        a \in {ListArgsA, ListArgsB}, o \in ListOutputs}
    \cup {[tool_name |-> "read_document", arguments |-> ReadArgs, result |-> o] :
        o \in ReadOutputs}
    \cup {[tool_name |-> "finish", arguments |-> FinishArgs,
           result |-> FinishExecute(FinishArgs)]}

Texts == {<<>>, <<" ">>, <<"o", "k">>}

\* what ModelProvider.generate gives the action step
ActResponses ==
    {[kind |-> "text", text |-> t] : t \in Texts}
    \cup {[kind |-> "tool", call |-> c] : c \in ToolCalls}
    \cup {[kind |-> "raise", cause |-> c] :
            c \in {"gateway", "tool_execute", "tool_unknown"}}

DefaultPlan == "1. Buscar informacion relevante 2. Consolidar resultados"

\* what ModelProvider.generate gives _generate_plan
PlanResponses ==
    {[kind |-> "text", plan |-> "plan-llm"], [kind |-> "dict"], [kind |-> "raise"]}

(***************************************************************************)
(* AgenteBuscador                                                          *)
(***************************************************************************)
Truthy(s) == s # ""

\* _should_replan looking at the error field only
_should_replan_ErrorOnly(obs) ==
    IF obs = <<>> THEN FALSE
    ELSE Truthy(Get(obs[Len(obs)].output, "error", ""))

_should_replan(obs) ==
    IF obs = <<>> THEN FALSE
    ELSE LET output == obs[Len(obs)].output
         IN \/ Truthy(Get(output, "error", ""))
            \/ Get(output, "count", -1) = 0

\* a signature that keeps the arguments in the order they were given
signature_Unsorted(o) == <<o.tool, o.input>>

signature(o) == <<o.tool, SortedItems(o.input)>>

repeat_count(obs) ==
    Cardinality({i \in 1..Len(obs) : signature(obs[i]) = signature(obs[Len(obs)])})

\* _detect_loop that lets one more repetition through
_detect_loop_OffByOne(obs) ==
    IF Len(obs) < MAX_LOOP_REPEATS THEN FALSE
    ELSE repeat_count(obs) > MAX_LOOP_REPEATS

_detect_loop(obs) ==
    IF Len(obs) < MAX_LOOP_REPEATS THEN FALSE
    ELSE repeat_count(obs) >= MAX_LOOP_REPEATS

\* the lines of the partial summary: one per useful observation
RECURSIVE useful_results(_)
useful_results(obs) ==
    IF obs = <<>> THEN <<>>
    ELSE LET output == Head(obs).output
         IN (IF ~Truthy(Get(output, "error", "")) /\ Get(output, "count", 0) > 0
             THEN <<<<Head(obs).tool, Get(output, "count", 0)>>>>
             ELSE <<>>)
            \o useful_results(Tail(obs))

\* a partial summary with a line for every observation that has a count
_build_partial_summary_CountsOnly(query, obs) ==
    LET sel == SelectSeq(obs, LAMBDA o : "count" \in DOMAIN o.output)
        lines == [i \in 1..Len(sel) |-> <<sel[i].tool, sel[i].output.count>>]
    IN [kind |-> "partial", query |-> query,
        results |-> lines,
        nothing_found |-> (lines = <<>>)]

_build_partial_summary(query, obs) ==
    [kind |-> "partial", query |-> query,
     results |-> useful_results(obs),
     nothing_found |-> (useful_results(obs) = <<>>)]

_build_summary_from_observations(query, obs) ==
    [kind |-> "auto", query |-> query,
     results |-> useful_results(obs),
     nothing_found |-> (useful_results(obs) = <<>>)]

_fallback_response(query, obs, plan) ==
    [content |-> [kind |-> "fallback",
                  partial |-> _build_partial_summary(query, obs),
                  limit |-> max_iterations],
     metadata |-> [plan |-> plan, observations |-> obs,
                   iterations |-> max_iterations,
                   completed |-> FALSE,
                   error |-> "max_iterations_reached"]]

BInit ==
    /\ b_pc = "idle"
    /\ max_iterations \in {m \in 0..MaxIter : m <= MAX_ITERATIONS}
    /\ iteration = 0
    /\ observations = <<>>
    /\ current_plan = None
    /\ response = <<>>
    /\ b_result = <<>>
    /\ fault = "none"
    /\ gateway_log = <<>>

\* a loop that runs one iteration more than max_iterations
LoopNext_OneMore(obs, plan, log) ==
    /\ observations' = obs
    /\ current_plan' = plan
    /\ gateway_log' = log
    /\ iteration' = iteration + 1
    /\ fault' = fault
    /\ IF iteration + 1 <= max_iterations
       THEN /\ b_pc' = "running"
            /\ response' = response
       ELSE /\ b_pc' = "returned"
            /\ response' = <<_fallback_response(Query, obs, plan)>>

\* the end of one loop iteration that did not return: the next iteration, or
\* the fall through to _fallback_response once the range is exhausted
LoopNext(obs, plan, log) ==
    /\ observations' = obs
    /\ current_plan' = plan
    /\ gateway_log' = log
    /\ iteration' = iteration + 1
    /\ fault' = fault
    /\ IF iteration + 1 < max_iterations
       THEN /\ b_pc' = "running"
            /\ response' = response
       ELSE /\ b_pc' = "returned"
            /\ response' = <<_fallback_response(Query, obs, plan)>>

Return(resp, obs, plan, log) ==
    /\ b_pc' = "returned"
    /\ response' = <<resp>>
    /\ observations' = obs
    /\ current_plan' = plan
    /\ gateway_log' = log
    /\ iteration' = iteration + 1
    /\ fault' = fault

\* a failed Gateway call after which the iteration is started again
Raise_Retries(cause, plan, log) ==
    /\ b_pc' = "running"
    /\ fault' = fault
    /\ current_plan' = plan
    /\ gateway_log' = log
    /\ UNCHANGED <<response, observations, iteration>>

Raise(cause, plan, log) ==
    /\ b_pc' = "raised"
    /\ fault' = cause
    /\ current_plan' = plan
    /\ gateway_log' = log
    /\ UNCHANGED <<response, observations, iteration>>

\* run(): the entry, before the first iteration
RunStart ==
    /\ b_pc = "idle"
    /\ observations' = <<>>
    /\ current_plan' = None
    /\ iteration' = 0
    /\ IF max_iterations > 0
       THEN /\ b_pc' = "running"
            /\ response' = response
       ELSE /\ b_pc' = "returned"
            /\ response' = <<_fallback_response(Query, <<>>, None)>>
    /\ UNCHANGED <<max_iterations, b_result, fault, gateway_log>>
    /\ UNCHANGED <<rvars, xvars>>

\* one iteration of the loop: PLAN, ACT, OBSERVE, DECIDE
Iterate(p, a) ==
    /\ b_pc = "running"
    /\ iteration < max_iterations
    /\ UNCHANGED max_iterations
    /\ UNCHANGED <<rvars, xvars>>
    \* result = await self.model_provider.generate(prompt), when it returns
    /\ b_result' =
          IF (current_plan = None \/ _should_replan(observations))
             /\ p.kind = "raise"
          THEN b_result
          ELSE IF a.kind = "raise" THEN <<>> ELSE <<a>>
    /\ LET needPlan == current_plan = None \/ _should_replan(observations)
           planLog == IF needPlan
                      THEN Append(gateway_log,
                                  [call |-> "plan", iteration |-> iteration,
                                   nobs |-> Len(observations)])
                      ELSE gateway_log
           plan == IF ~needPlan THEN current_plan
                   ELSE IF p.kind = "text" THEN p.plan ELSE DefaultPlan
           actLog == Append(planLog,
                            [call |-> "act", iteration |-> iteration,
                             nobs |-> Len(observations)])
       IN IF needPlan /\ p.kind = "raise"
          THEN Raise("gateway_plan", current_plan, planLog)
          ELSE IF a.kind = "raise"
          THEN Raise(a.cause, plan, actLog)
          ELSE IF a.kind = "text"
          THEN IF observations # <<>> /\ Strip(a.text) # <<>>
               THEN Return([content |-> [kind |-> "text", text |-> a.text],
                            metadata |-> [plan |-> plan,
                                          observations |-> observations,
                                          iterations |-> iteration + 1,
                                          finished_by |-> "text_response"]],
                           observations, plan, actLog)
               ELSE IF observations # <<>>
               THEN Return([content |->
                               _build_summary_from_observations(Query, observations),
                            metadata |-> [plan |-> plan,
                                          observations |-> observations,
                                          iterations |-> iteration + 1,
                                          finished_by |-> "auto_summary"]],
                           observations, plan, actLog)
               ELSE LoopNext(observations, plan, actLog)
          ELSE LET result == a.call
                   obs == Append(observations,
                                 [step |-> iteration + 1,
                                  tool |-> result.tool_name,
                                  input |-> result.arguments,
                                  output |-> result.result])
               IN IF _detect_loop(obs)
                  THEN Return([content |-> _build_partial_summary(Query, obs),
                               metadata |-> [plan |-> plan,
                                             observations |-> obs,
                                             iterations |-> iteration + 1,
                                             error |-> "loop_detected"]],
                              obs, plan, actLog)
                  ELSE IF result.tool_name = "finish"
                  THEN Return([content |-> [kind |-> "finish",
                                            summary |-> result.result.summary],
                               metadata |-> [plan |-> plan,
                                             observations |-> obs,
                                             iterations |-> iteration + 1,
                                             sources |-> Get(result.result, "sources", <<>>),
                                             confidence |->
                                                Get(result.result, "confidence", "medium")]],
                              obs, plan, actLog)
                  ELSE LoopNext(obs, plan, actLog)

(***************************************************************************)
(* AgentRetrieval: the index directory, the documents and the Gateway      *)
(***************************************************************************)
\* index files that may lie in the index directory
IndexA ==
    [name |-> "index-PROC-A.json", glob |-> TRUE, loadable |-> TRUE,
     data |-> [document_id |-> "PROC-A", procedure_code |-> "PROC-A",
               path |-> [kind |-> "pdf", total_pages |-> 4],
               sections |-> <<[section_id |-> "1", title |-> "Seccion 1",
                               pages |-> <<1, 2>>],
                              [section_id |-> "2", title |-> "Seccion 2",
                               pages |-> <<3, 4>>]>>]]

IndexB ==
    [name |-> "index-PROC-B.json", glob |-> TRUE, loadable |-> TRUE,
     data |-> [document_id |-> "PROC-B", procedure_code |-> "PROC-B",
               path |-> [kind |-> "md"],
               sections |-> <<[section_id |-> "1", title |-> "Requisitos",
                               page_start |-> 1, page_end |-> 2],
                              [section_id |-> "2", title |-> "Pasos",
                               page_start |-> 3, page_end |-> 3],
                              [section_id |-> "3", title |-> "Plazos",
                               page_start |-> 4, page_end |-> 5]>>]]

\* matches index-*.json but is not valid JSON
IndexCorrupt ==
    [name |-> "index-bad.json", glob |-> TRUE, loadable |-> FALSE]

\* a JSON file whose name does not match index-*.json
IndexUnprefixed ==
    [name |-> "PROC-C.json", glob |-> FALSE, loadable |-> TRUE,
     data |-> [document_id |-> "PROC-C", procedure_code |-> "PROC-C",
               sections |-> <<>>]]

IndexDirs ==
    {[exists |-> FALSE, files |-> {}],
     [exists |-> TRUE, files |-> {}],
     [exists |-> TRUE, files |-> {IndexCorrupt}],
     [exists |-> TRUE, files |-> {IndexUnprefixed}],
     [exists |-> TRUE, files |-> {IndexA}],
     [exists |-> TRUE, files |-> {IndexA, IndexB}],
     [exists |-> TRUE, files |-> {IndexA, IndexB, IndexCorrupt, IndexUnprefixed}]}

DocumentDirs ==
    {[exists |-> FALSE, count |-> 0]}
    \cup {[exists |-> TRUE, count |-> n] : n \in 0..MaxDocs}

\* _load_all_indices: {document_id: index_data} of the files that match
\* index-*.json and load; {} when the directory does not exist
_load_all_indices(dir) ==
    IF ~dir.exists THEN {}
    ELSE {f.data : f \in {g \in dir.files : g.glob /\ g.loadable}}

IndexOf(loaded, doc_id) == CHOOSE d \in loaded : d.document_id = doc_id

\* a membership test that lets an id through that is no loaded index
LoadedIds_AndUnknown(loaded) == {d.document_id : d \in loaded} \cup {"PROC-Z"}

LoadedIds(loaded) == {d.document_id : d \in loaded}

\* a Gateway text: its form and the JSON value it carries
\*   plain  : the JSON alone          fenced : the JSON in a ```json block
\*   prose  : the JSON inside prose   garbage: no JSON at all
GatewayText(form, value) == [kind |-> "text", form |-> form, value |-> value]

GatewayRaise == [kind |-> "raise"]

JsonDict(fields) == [type |-> "dict", fields |-> fields]

JsonList == [type |-> "list"]

NoJson == [type |-> "none"]

\* Phases 1 and 2: strip a leading markdown fence, then json.loads.
\* Gives <<value>> or <<>> for a JSONDecodeError.
PhaseJsonLoads(resp) ==
    IF resp.form \in {"plain", "fenced"} THEN <<resp.value>> ELSE <<>>

Phase1Lists ==
    {<<>>, <<"PROC-A">>, <<"PROC-A", "PROC-B">>, <<"PROC-B", "PROC-A">>,
     <<"PROC-Z">>, <<"PROC-Z", "PROC-B">>}

Phase1Responses ==
    {GatewayRaise, GatewayText("garbage", NoJson),
     GatewayText("prose", JsonDict([relevant_documents |-> <<"PROC-A">>])),
     GatewayText("plain", JsonList),
     GatewayText("plain", JsonDict([reasoning |-> "r"])),
     GatewayText("fenced", JsonDict([relevant_documents |-> <<"PROC-B">>]))}
    \cup {GatewayText("plain", JsonDict([relevant_documents |-> l])) :
            l \in Phase1Lists}

\* keep the ids that are loaded indices, in the order given
RECURSIVE KnownIds(_, _)
KnownIds(ids, loaded) ==
    IF ids = <<>> THEN <<>>
    ELSE (IF Head(ids) \in LoadedIds(loaded) THEN <<Head(ids)>> ELSE <<>>)
         \o KnownIds(Tail(ids), loaded)

\* a Phase 1 that, like Phase 2, keeps every document when it cannot parse
_filter_relevant_documents_KeepAll(loaded, resp) ==
    IF loaded = {} THEN <<>>
    ELSE IF resp.kind = "raise" THEN <<>>
    ELSE LET parsed == PhaseJsonLoads(resp)
         IN IF parsed = <<>> THEN KnownIds(<<"PROC-A", "PROC-B">>, loaded)
            ELSE IF parsed[1].type # "dict" THEN <<>>
            ELSE KnownIds(Get(parsed[1].fields, "relevant_documents", <<>>),
                          loaded)

\* _filter_relevant_documents(query, indices) for one Gateway response
_filter_relevant_documents(loaded, resp) ==
    IF loaded = {} THEN <<>>
    ELSE IF resp.kind = "raise" THEN <<>>
    ELSE LET parsed == PhaseJsonLoads(resp)
         IN IF parsed = <<>> THEN <<>>                    \* JSONDecodeError
            ELSE IF parsed[1].type # "dict" THEN <<>>      \* no .get: Exception
            ELSE KnownIds(Get(parsed[1].fields, "relevant_documents", <<>>),
                          loaded)

RECURSIVE AllSectionIds(_)
AllSectionIds(sections) ==
    IF sections = <<>> THEN <<>>
    ELSE <<Head(sections).section_id>> \o AllSectionIds(Tail(sections))

\* the most section ids the Phase 2 prompt asks for ("maximo 3-5")
SectionCap == 5

Phase2Lists ==
    {<<>>, <<"1">>, <<"2", "1">>, <<"9">>, <<"1", "2", "3", "4", "5", "6">>}

Phase2Responses ==
    {GatewayRaise, GatewayText("garbage", NoJson),
     GatewayText("prose", JsonDict([relevant_sections |-> <<"1">>])),
     GatewayText("plain", JsonList),
     GatewayText("plain", JsonDict([reasoning |-> "r"])),
     GatewayText("fenced", JsonDict([relevant_sections |-> <<"2">>])),
     GatewayText("plain", JsonDict([relevant_sections |-> <<"1">>,
                                    ids_not_strings |-> TRUE]))}
    \cup {GatewayText("plain", JsonDict([relevant_sections |-> l])) :
            l \in Phase2Lists}

\* a Phase 2 that, like Phase 1, selects nothing when it cannot parse
_filter_relevant_sections_DropAll(index, resp) ==
    IF resp.kind = "raise" THEN AllSectionIds(index.sections)
    ELSE LET parsed == PhaseJsonLoads(resp)
         IN IF parsed = <<>> THEN <<>>
            ELSE IF parsed[1].type # "dict" THEN AllSectionIds(index.sections)
            ELSE Get(parsed[1].fields, "relevant_sections", <<>>)

\* _filter_relevant_sections(query, document_index) for one Gateway response
_filter_relevant_sections(index, resp) ==
    IF resp.kind = "raise" THEN AllSectionIds(index.sections)
    ELSE LET parsed == PhaseJsonLoads(resp)
         IN IF parsed = <<>> THEN AllSectionIds(index.sections)
            ELSE IF parsed[1].type # "dict" THEN AllSectionIds(index.sections)
            ELSE Get(parsed[1].fields, "relevant_sections", <<>>)

\* the section ids the model returned are not strings: ', '.join raises
JoinRaises(resp) ==
    /\ resp.kind = "text"
    /\ PhaseJsonLoads(resp) # <<>>
    /\ PhaseJsonLoads(resp)[1].type = "dict"
    /\ Get(PhaseJsonLoads(resp)[1].fields, "ids_not_strings", FALSE)

SeqMin(s) == CHOOSE x \in {s[i] : i \in 1..Len(s)} :
                \A j \in 1..Len(s) : x <= s[j]

SeqMax(s) == CHOOSE x \in {s[i] : i \in 1..Len(s)} :
                \A j \in 1..Len(s) : x >= s[j]

\* the page range of a section in whichever format the index uses
PageStart(section) ==
    IF Get(section, "pages", <<>>) # <<>> THEN SeqMin(section.pages)
    ELSE Get(section, "page_start", 0)

PageEnd(section) ==
    IF Get(section, "pages", <<>>) # <<>> THEN SeqMax(section.pages)
    ELSE Get(section, "page_end", 0)

InSeq(x, s) == \E i \in 1..Len(s) : s[i] = x

\* _load_section_content: the contents loaded and the reads made, for the
\* sections of the index (in index order) whose id is in section_ids
RECURSIVE LoadSections(_, _, _)
LoadSections(index, sections, section_ids) ==
    IF sections = <<>> THEN [contents |-> <<>>, reads |-> <<>>]
    ELSE LET section == Head(sections)
             rest == LoadSections(index, Tail(sections), section_ids)
             ps == PageStart(section)
             pe == PageEnd(section)
             path == index.path
         IN IF ~InSeq(section.section_id, section_ids) THEN rest
            ELSE IF path.kind = "pdf" /\ ps # 0 /\ pe # 0
            THEN IF ps < 1 \/ pe > path.total_pages
                 THEN [contents |-> rest.contents,          \* ValueError: skipped
                       reads |-> <<[op |-> "read_pdf_pages",
                                    doc |-> index.document_id,
                                    page_start |-> ps, page_end |-> pe]>>
                                 \o rest.reads]
                 ELSE [contents |->
                          <<[section_id |-> section.section_id,
                             title |-> section.title,
                             content |-> <<index.document_id, ps, pe>>,
                             metadata |-> [document_id |-> index.document_id,
                                           procedure_code |-> index.procedure_code,
                                           page_start |-> ps, page_end |-> pe]]>>
                          \o rest.contents,
                       reads |-> <<[op |-> "read_pdf_pages",
                                    doc |-> index.document_id,
                                    page_start |-> ps, page_end |-> pe]>>
                                 \o rest.reads]
            ELSE [contents |->
                     <<[section_id |-> section.section_id,
                        title |-> section.title,
                        content |-> <<index.document_id, section.title>>,
                        metadata |-> [document_id |-> index.document_id,
                                      procedure_code |-> index.procedure_code,
                                      page_start |-> ps, page_end |-> pe]]>>
                     \o rest.contents,
                  reads |-> <<[op |-> "_read_file", doc |-> index.document_id,
                               page_start |-> 0, page_end |-> 0]>>
                            \o rest.reads]

\* a loader that takes every section of the document
_load_section_content_AllSections(index, section_ids) ==
    IF Get(index, "path", [kind |-> "gone"]).kind = "gone"
    THEN [contents |-> <<>>, reads |-> <<>>]
    ELSE LoadSections(index, index.sections, AllSectionIds(index.sections))

_load_section_content(index, section_ids) ==
    IF Get(index, "path", [kind |-> "gone"]).kind = "gone"
    THEN [contents |-> <<>>, reads |-> <<>>]
    ELSE LoadSections(index, index.sections, section_ids)

GatewayCall(what, doc) ==
    [op |-> "generate", phase |-> what, doc |-> doc,
     page_start |-> 0, page_end |-> 0]

NoDocumentsResult ==
    [chunks |-> <<>>, method |-> "agent_rag_indexed",
     message |-> "No se encontraron documentos relevantes para tu consulta"]

NoSectionsResult ==
    [chunks |-> <<>>, method |-> "agent_rag_indexed",
     message |-> "No se encontraron secciones relevantes",
     elapsed_ms |-> "elapsed"]

SectionCitation(section) ==
    <<section.metadata.procedure_code, section.title,
      section.metadata.page_start, section.metadata.page_end>>

RECURSIVE SectionChunks(_)
SectionChunks(sections) ==
    IF sections = <<>> THEN <<>>
    ELSE <<[content |-> Head(sections).content,
            metadata |-> Head(sections).metadata,
            score |-> 100,
            reasoning |-> <<"Seccion relevante", Head(sections).title>>,
            citation |-> SectionCitation(Head(sections))]>>
         \o SectionChunks(Tail(sections))

\* _generate_response_with_sections once the Gateway has answered
_generate_response_with_sections(sections, resp) ==
    IF resp.kind = "raise"
    THEN [chunks |-> <<>>, method |-> "agent_rag_indexed",
          error |-> "Gateway error", elapsed_ms |-> "elapsed"]
    ELSE [response |-> "answer", chunks |-> SectionChunks(sections),
          method |-> "agent_rag_indexed", elapsed_ms |-> "elapsed"]

(***************************************************************************)
(* Judge retrieval: ChunkEvaluator and AgentRetrieval.retrieve             *)
(***************************************************************************)
Scores == {0, 50, 150}

ScoreDict(sc) ==
    JsonDict([relevance_score |-> sc, reasoning |-> "r",
              relevant_sections |-> <<>>])

JudgeResponses ==
    {GatewayRaise, GatewayText("garbage", NoJson),
     GatewayText("plain", JsonList),
     GatewayText("plain", JsonDict([reasoning |-> "r"])),
     GatewayText("fenced", ScoreDict(50)),
     GatewayText("prose", ScoreDict(150))}
    \cup {GatewayText("plain", ScoreDict(sc)) : sc \in Scores}

UnparseableEvaluation ==
    JsonDict([relevance_score |-> 0,
              reasoning |-> "No se pudo parsear la respuesta del LLM",
              relevant_sections |-> <<>>])

\* ChunkEvaluator._parse_json_response: strip fences, json.loads, else the
\* text between the first { and the last }, else the zero-score fallback
_parse_json_response(resp) ==
    IF resp.form \in {"plain", "fenced"} THEN resp.value
    ELSE IF resp.form = "prose" /\ resp.value.type = "dict" THEN resp.value
    ELSE UnparseableEvaluation

ErrorEvaluation(doc_id) ==
    [document_id |-> doc_id, relevance_score |-> 0,
     reasoning |-> "Error al evaluar", relevant_sections |-> <<>>]

\* ChunkEvaluator.evaluate_relevance for one Gateway response
evaluate_relevance(doc_id, resp) ==
    IF resp.kind = "raise" THEN ErrorEvaluation(doc_id)
    ELSE LET evaluation == _parse_json_response(resp)
         IN IF evaluation.type # "dict"
            THEN ErrorEvaluation(doc_id)      \* item assignment on a list
            ELSE [x \in DOMAIN evaluation.fields \cup {"document_id"} |->
                    IF x = "document_id" THEN doc_id ELSE evaluation.fields[x]]

\* the answer is an error or malformed: the Gateway raised, the text holds no
\* JSON object, or the object lacks one of the three expected fields
MalformedAnswer(resp) ==
    \/ resp.kind = "raise"
    \/ resp.form = "garbage"
    \/ resp.value.type # "dict"
    \/ ~({"relevance_score", "reasoning", "relevant_sections"}
            \subseteq DOMAIN resp.value.fields)

EvaluationComplete(evaluation) ==
    {"relevance_score", "reasoning", "relevant_sections"} \subseteq DOMAIN evaluation

\* scored_docs: documents zipped with their evaluations
RECURSIVE ScoredDocs(_, _)
ScoredDocs(docs, evals) ==
    IF docs = <<>> THEN <<>>
    ELSE <<[doc |-> Head(docs),
            score |-> Head(evals)[1].relevance_score,
            reasoning |-> Head(evals)[1].reasoning]>>
         \o ScoredDocs(Tail(docs), Tail(evals))

\* a sort that forgets reverse=True
RECURSIVE InsertByScore_Ascending(_, _)
InsertByScore_Ascending(x, sorted) ==
    IF sorted = <<>> THEN <<x>>
    ELSE IF Head(sorted).score <= x.score
         THEN <<Head(sorted)>> \o InsertByScore_Ascending(x, Tail(sorted))
         ELSE <<x>> \o sorted

\* list.sort(key=score, reverse=True): stable, descending
RECURSIVE InsertByScore(_, _)
InsertByScore(x, sorted) ==
    IF sorted = <<>> THEN <<x>>
    ELSE IF Head(sorted).score >= x.score
         THEN <<Head(sorted)>> \o InsertByScore(x, Tail(sorted))
         ELSE <<x>> \o sorted

RECURSIVE SortByScoreDesc(_)
SortByScoreDesc(docs) ==
    IF docs = <<>> THEN <<>>
    ELSE InsertByScore(docs[Len(docs)],
                       SortByScoreDesc(SubSeq(docs, 1, Len(docs) - 1)))

\* scored_docs[:k] for k >= 0
TopK(docs, kk) == SubSeq(docs, 1, IF kk < Len(docs) THEN kk ELSE Len(docs))

\* _format_citation
_format_citation(doc, score) == <<"Doc", doc, "relevancia LLM", score>>

RECURSIVE FormatChunks(_)
FormatChunks(docs) ==
    IF docs = <<>> THEN <<>>
    ELSE <<[content |-> Head(docs).doc, metadata |-> Head(docs).doc,
            score |-> Head(docs).score, reasoning |-> Head(docs).reasoning,
            citation |-> _format_citation(Head(docs).doc, Head(docs).score)]>>
         \o FormatChunks(Tail(docs))

RInit ==
    /\ r_pc = "idle"
    /\ indices_dir \in IndexDirs
    /\ documents_dir \in DocumentDirs
    /\ entry = "none"
    /\ k = 0
    /\ indices = {}
    /\ relevant_docs = <<>>
    /\ doc_idx = 0
    /\ selected = <<>>
    /\ all_sections = <<>>
    /\ documents = <<>>
    /\ evaluations = <<>>
    /\ r_result = <<>>
    /\ r_error = "none"
    /\ r_log = <<>>
    /\ responses = <<>>
    /\ malformed = <<>>
    /\ reordered = FALSE

\* retrieve(query, k): read_all_documents, then one evaluation task per
\* document, all created before any is awaited
StartRetrieve(kk, log) ==
    /\ k' = kk
    /\ IF ~documents_dir.exists
       THEN /\ r_pc' = "raised"
            /\ r_error' = "FileNotFoundError"
            /\ documents' = documents
            /\ evaluations' = evaluations
            /\ malformed' = malformed
            /\ reordered' = reordered
            /\ r_log' = log
       ELSE /\ r_pc' = "judging"
            /\ r_error' = r_error
            /\ documents' = [i \in 1..documents_dir.count |-> i]
            /\ evaluations' = [i \in 1..documents_dir.count |-> <<>>]
            /\ malformed' = [i \in 1..documents_dir.count |-> "pending"]
            /\ reordered' = FALSE
            /\ r_log' = log \o [i \in 1..documents_dir.count |->
                                   GatewayCall("judge", i)]

Retrieve(kk) ==
    /\ r_pc = "idle"
    /\ UNCHANGED <<bvars, xvars>>
    /\ entry' = "retrieve"
    /\ StartRetrieve(kk, r_log)
    /\ UNCHANGED <<indices_dir, documents_dir, indices, relevant_docs, doc_idx,
                   selected, all_sections, r_result, responses>>

\* the documents whose evaluation has completed
Completed == {j \in 1..Len(malformed) : malformed[j] # "pending"}

\* a gather that returns the results in the order the tasks completed
GatherSlot_CompletionOrder(i, done) == Cardinality(done) + 1

\* asyncio.gather: the result of the i-th awaitable is the i-th of the list it
\* returns, whatever completed before it
GatherSlot(i, done) == i

\* one evaluation of the gather completes, in any order
EvaluationDone(i, resp) ==
    /\ r_pc = "judging"
    /\ UNCHANGED <<bvars, xvars>>
    /\ i \in 1..Len(documents)
    /\ malformed[i] = "pending"
    /\ evaluations' = [evaluations EXCEPT ![GatherSlot(i, Completed)] =
                          <<evaluate_relevance(i, resp)>>]
    /\ reordered' = (reordered \/ \E j \in 1..(i - 1) : malformed[j] = "pending")
    /\ malformed' = [malformed EXCEPT ![i] =
                        IF MalformedAnswer(resp) THEN "malformed" ELSE "wellformed"]
    /\ UNCHANGED <<r_pc, indices_dir, documents_dir, entry, k, indices,
                   relevant_docs, doc_idx, selected, all_sections, documents,
                   r_result, r_error, r_log, responses>>

\* the gather has joined: combine, rank, take the top k, format
Rank ==
    /\ r_pc = "judging"
    /\ UNCHANGED <<bvars, xvars>>
    /\ \A i \in 1..Len(documents) : evaluations[i] # <<>>
    /\ IF \E i \in 1..Len(documents) : ~EvaluationComplete(evaluations[i][1])
       THEN /\ r_pc' = "raised"
            /\ r_error' = "KeyError"
            /\ r_result' = r_result
       ELSE /\ r_pc' = "returned"
            /\ r_error' = r_error
            /\ r_result' =
                 <<[chunks |-> FormatChunks(
                                  TopK(SortByScoreDesc(
                                          ScoredDocs(documents, evaluations)), k)),
                    method |-> "agent_rag"]>>
    /\ UNCHANGED <<indices_dir, documents_dir, entry, k, indices, relevant_docs,
                   doc_idx, selected, all_sections, documents, evaluations, r_log,
                   responses, malformed, reordered>>

\* retrieve_with_index: load the indices; without any, retrieve(query, k=5)
RetrieveWithIndex ==
    /\ r_pc = "idle"
    /\ UNCHANGED <<bvars, xvars>>
    /\ entry' = "retrieve_with_index"
    /\ indices' = _load_all_indices(indices_dir)
    /\ IF _load_all_indices(indices_dir) = {}
       THEN StartRetrieve(5, r_log)
       ELSE /\ r_pc' = "phase1"
            /\ r_log' = Append(r_log, GatewayCall("phase1", "all"))
            /\ UNCHANGED <<k, documents, evaluations, r_error, malformed,
                           reordered>>
    /\ UNCHANGED <<indices_dir, documents_dir, relevant_docs, doc_idx,
                   selected, all_sections, r_result, responses>>

\* Phase 1 answered: no relevant document ends the retrieval
Phase1(resp) ==
    /\ r_pc = "phase1"
    /\ UNCHANGED <<bvars, xvars>>
    /\ responses' = Append(responses, resp)
    /\ LET docs == _filter_relevant_documents(indices, resp)
       IN /\ relevant_docs' = docs
          /\ IF docs = <<>>
             THEN /\ r_pc' = "returned"
                  /\ r_result' = <<NoDocumentsResult>>
                  /\ UNCHANGED <<doc_idx, r_log>>
             ELSE /\ r_pc' = "phase2"
                  /\ doc_idx' = 1
                  /\ r_result' = r_result
                  /\ r_log' = Append(r_log, GatewayCall("phase2", docs[1]))
    /\ UNCHANGED <<indices_dir, documents_dir, entry, k, indices, selected,
                   all_sections, documents, evaluations, r_error, malformed,
                   reordered>>

\* Phase 2 answered for relevant_docs[doc_idx]: load its selected sections,
\* then the next document, or Phase 3 after the last one
Phase2(resp) ==
    /\ r_pc = "phase2"
    /\ UNCHANGED <<bvars, xvars>>
    /\ responses' = Append(responses, resp)
    /\ LET index == IndexOf(indices, relevant_docs[doc_idx])
           section_ids == _filter_relevant_sections(index, resp)
           loaded == IF section_ids = <<>>
                     THEN [contents |-> <<>>, reads |-> <<>>]
                     ELSE _load_section_content(index, section_ids)
           sections == all_sections \o loaded.contents
           log == r_log \o loaded.reads
       IN IF section_ids # <<>> /\ JoinRaises(resp)
          THEN /\ r_pc' = "raised"
               /\ r_error' = "TypeError"
               /\ UNCHANGED <<doc_idx, selected, all_sections, r_result, r_log>>
          ELSE /\ selected' = Append(selected, section_ids)
               /\ all_sections' = sections
               /\ r_error' = r_error
               /\ IF doc_idx < Len(relevant_docs)
                  THEN /\ r_pc' = "phase2"
                       /\ doc_idx' = doc_idx + 1
                       /\ r_result' = r_result
                       /\ r_log' = Append(log, GatewayCall("phase2",
                                                 relevant_docs[doc_idx + 1]))
                  ELSE IF sections = <<>>
                  THEN /\ r_pc' = "returned"
                       /\ doc_idx' = doc_idx
                       /\ r_result' = <<NoSectionsResult>>
                       /\ r_log' = log
                  ELSE /\ r_pc' = "phase3"
                       /\ doc_idx' = doc_idx
                       /\ r_result' = r_result
                       /\ r_log' = Append(log, GatewayCall("phase3", "all"))
    /\ UNCHANGED <<indices_dir, documents_dir, entry, k, indices, relevant_docs,
                   documents, evaluations, malformed, reordered>>

\* Phase 3 answered: the chunks of the loaded sections
Phase3(resp) ==
    /\ r_pc = "phase3"
    /\ UNCHANGED <<bvars, xvars>>
    /\ r_pc' = "returned"
    /\ responses' = Append(responses, resp)
    /\ r_result' = <<_generate_response_with_sections(all_sections, resp)>>
    /\ UNCHANGED <<indices_dir, documents_dir, entry, k, indices, relevant_docs,
                   doc_idx, selected, all_sections, documents, evaluations,
                   r_error, r_log, malformed, reordered>>

(***************************************************************************)
(* AgentRAGIndexer.index_document (src/rag/agent_based/indexer.py) and     *)
(* the bulk indexing job (scripts/index_documents.py)                      *)
(* A page's text is modelled by its number of words (0: no extractable     *)
(* text); a summary by where its text comes from.  File names are modelled *)
(* as the sequence of their parts.                                         *)
(***************************************************************************)
MaxPages == 3

MaxRuns == 2

DEFAULT_BATCH_SIZE == 5

FALLBACK_WORDS == 200

PageWords == {0, 2, 300}

BatchSizes == {1, 2, DEFAULT_BATCH_SIZE}

\* str.upper() of the procedure codes that occur
Upper(s) == IF s = "afp-7" THEN "AFP-7" ELSE s

PdfFiles ==
    {[exists |-> FALSE, stem |-> "proc-jub-001", code |-> None, words |-> <<>>]}
    \cup {[exists |-> TRUE, stem |-> "proc-jub-001", code |-> c, words |-> w] :
            c \in {None, "afp-7"},
            w \in UNION {[1..n -> PageWords] : n \in 0..MaxPages}}

\* Gateway answers to a summarization prompt
SummaryTexts == {<<"o", "k">>, <<" ", "o", "k", " ">>}

SummaryResponses ==
    {GatewayRaise} \cup {[kind |-> "text", text |-> t] : t \in SummaryTexts}

\* _read_pdf_pages: the pages that have text, with their 1-based numbers
RECURSIVE ReadPages(_, _)
ReadPages(words, page_num) ==
    IF page_num > Len(words) THEN <<>>
    ELSE IF words[page_num] > 0
         THEN <<[page_num |-> page_num, words |-> words[page_num]]>>
              \o ReadPages(words, page_num + 1)
         ELSE ReadPages(words, page_num + 1)

_read_pdf_pages(file) == ReadPages(file.words, 1)

\* pages[i:j] of Python (0-based, j exclusive, clipped to the length)
Slice(s, i, j) == SubSeq(s, i + 1, IF j < Len(s) THEN j ELSE Len(s))

\* _create_batches: for i in range(0, len(pages), batch_size)
RECURSIVE Batches(_, _, _)
Batches(pp, bs, i) ==
    IF i >= Len(pp) THEN <<>>
    ELSE <<Slice(pp, i, i + bs)>> \o Batches(pp, bs, i + bs)

_create_batches(pp, bs) == Batches(pp, bs, 0)

\* len(pages_text.split()): each page gives "=== Página n ===" and its text
RECURSIVE PagesTextWords(_)
PagesTextWords(batch) ==
    IF batch = <<>> THEN 0
    ELSE 4 + batch[1].words + PagesTextWords(Tail(batch))

\* what the prompt of _summarize_batch is built from: the pages of the batch
pages_text(batch) ==
    [kind |-> "pages", of |-> [j \in 1..Len(batch) |-> batch[j].page_num]]

\* a global prompt built from the pages of the document
sections_text_RawPages(secs) ==
    [kind |-> "pages", of |-> [j \in 1..Len(i_pages) |-> i_pages[j].page_num]]

\* what the prompt of _summarize_document is built from: for each section
\* its id, its page range and its summary
sections_text(secs) ==
    [kind |-> "summaries",
     of |-> [j \in 1..Len(secs) |->
               <<secs[j].section_id, secs[j].page_range, secs[j].summary>>]]

\* _summarize_batch with the Gateway answering resp, the Gateway failure
\* returning "" instead of the truncated text
_summarize_batch_EmptyOnFailure(batch, resp) ==
    IF resp.kind = "text"
    THEN [source |-> "gateway", text |-> Strip(resp.text)]
    ELSE [source |-> "gateway", text |-> <<>>]

\* _summarize_batch with the Gateway answering resp:
\* summary.strip(), or " ".join(pages_text.split()[:200]) + "..."
_summarize_batch(batch, resp) ==
    IF resp.kind = "text"
    THEN [source |-> "gateway", text |-> Strip(resp.text)]
    ELSE [source |-> "truncated", from_page |-> batch[1].page_num,
          words |-> IF PagesTextWords(batch) < FALLBACK_WORDS
                    THEN PagesTextWords(batch) ELSE FALLBACK_WORDS,
          ellipsis |-> TRUE]

\* _summarize_document with the Gateway answering resp
_summarize_document(secs, resp) ==
    IF resp.kind = "text"
    THEN [source |-> "gateway", text |-> Strip(resp.text)]
    ELSE IF secs # <<>> THEN secs[1].summary
         ELSE [source |-> "unavailable"]

\* str(i) of a batch number
Str(i) == <<"0", "1", "2", "3", "4", "5", "6", "7", "8", "9">>[i + 1]

\* the section index_document appends for batch number i (1-based)
Section(i, batch, summary) ==
    [section_id |-> Str(i),
     pages |-> [j \in 1..Len(batch) |-> batch[j].page_num],
     page_range |-> <<batch[1].page_num, batch[Len(batch)].page_num>>,
     summary |-> summary]

\* _infer_procedure_code: PROC-<ABBR>-<number> from a proc-<abbr>-<number> stem
_infer_procedure_code(stem) ==
    IF stem = "proc-jub-001" THEN "PROC-JUB-001" ELSE stem

_extract_metadata_from_content(pp, file, now) ==
    [source_file |-> <<file.stem, ".pdf">>,
     total_pages |-> Len(pp),
     indexed_at |-> now,
     procedure_code |-> IF file.code # None THEN Upper(file.code)
                        ELSE _infer_procedure_code(file.stem)]

_create_index(metadata, global_summary, secs) ==
    [document_id |-> metadata.procedure_code,
     source_file |-> metadata.source_file,
     total_pages |-> metadata.total_pages,
     summary |-> global_summary,
     metadata |-> [procedure_code |-> metadata.procedure_code,
                   indexed_at |-> metadata.indexed_at],
     sections |-> secs]

\* the name _save_index writes: f"{index['document_id']}.json"
SavedName(index) == <<index.document_id, ".json">>

\* the name the bulk job looks for: f"{pdf_path.stem}_index.json"
IndexFileName(file) == <<file.stem, "_index", ".json">>

\* glob("index-*.json") on a name
MatchesIndexGlob(name) == name[1] = "index-" /\ name[Len(name)] = ".json"

IndexFile(name, data) ==
    [name |-> name, glob |-> MatchesIndexGlob(name), loadable |-> TRUE,
     data |-> data]

\* _save_index: open(file_path, "w") replaces a file of the same name
_save_index(dir, index) ==
    {f \in dir : f.name # SavedName(index)}
    \cup {IndexFile(SavedName(index), index)}

\* index_file.exists()
IndexFileExists(dir, file) == \E f \in dir : f.name = IndexFileName(file)

\* an index file left in the directory under the name the job looks for
ExistingIndexFile(file) ==
    IndexFile(IndexFileName(file),
              [document_id |-> _infer_procedure_code(file.stem),
               sections |-> <<>>])

IInit ==
    /\ i_pc = "idle"
    /\ pdf \in PdfFiles
    /\ out_dir \in {{}, {ExistingIndexFile(pdf)}}
    /\ clock = 0
    /\ caller = [who |-> "none", reindex |-> FALSE]
    /\ batch_size = DEFAULT_BATCH_SIZE
    /\ i_pages = <<>>
    /\ i_batches = <<>>
    /\ i_sections = <<>>
    /\ i_index = <<>>
    /\ i_error = "none"
    /\ i_log = <<>>
    /\ history = <<>>

\* what the bulk job records of a run over the document
JobRecord(who, outcome, calls, dir) ==
    [reindex |-> who.reindex, outcome |-> outcome, calls |-> calls, dir |-> dir]

\* index_document up to the summarization loop: the exists check,
\* _read_pdf_pages and _create_batches; the job catches what it raises
StartIndex(who, bs) ==
    /\ caller' = who
    /\ batch_size' = bs
    /\ i_sections' = <<>>
    /\ i_index' = <<>>
    /\ i_log' = <<>>
    /\ IF ~pdf.exists
       THEN /\ i_pc' = "raised"
            /\ i_error' = "FileNotFoundError"
            /\ i_pages' = <<>>
            /\ i_batches' = <<>>
       ELSE IF _read_pdf_pages(pdf) = <<>>
       THEN /\ i_pc' = "raised"
            /\ i_error' = "ValueError"
            /\ i_pages' = <<>>
            /\ i_batches' = <<>>
       ELSE /\ i_pc' = "batches"
            /\ i_error' = "none"
            /\ i_pages' = _read_pdf_pages(pdf)
            /\ i_batches' = _create_batches(_read_pdf_pages(pdf), bs)
    /\ history' = IF who.who = "job" /\ i_pc' = "raised"
                  THEN Append(history, JobRecord(who, "error", 0, out_dir))
                  ELSE history
    /\ UNCHANGED <<pdf, out_dir, clock>>

Finished == i_pc \in {"idle", "returned", "raised", "job_done"}

\* a direct call of index_document(pdf_path, output_dir, batch_size)
IndexDocument(bs) ==
    /\ i_pc = "idle"
    /\ StartIndex([who |-> "direct", reindex |-> FALSE], bs)
    /\ UNCHANGED <<bvars, rvars, avars, tvars>>

\* one run of index_documents(reindex) over the document
JobRun(re) ==
    /\ Finished
    /\ Len(history) < MaxRuns
    /\ IF ~pdf.exists
       THEN /\ i_pc' = "job_done"
            /\ history' = Append(history,
                   JobRecord([reindex |-> re], "no_files", 0, out_dir))
            /\ UNCHANGED <<pdf, out_dir, clock, caller, batch_size, i_pages,
                           i_batches, i_sections, i_index, i_error, i_log>>
       ELSE IF IndexFileExists(out_dir, pdf) /\ ~re
       THEN /\ i_pc' = "job_done"
            /\ history' = Append(history,
                   JobRecord([reindex |-> re], "skipped", 0, out_dir))
            /\ UNCHANGED <<pdf, out_dir, clock, caller, batch_size, i_pages,
                           i_batches, i_sections, i_index, i_error, i_log>>
       ELSE StartIndex([who |-> "job", reindex |-> re], DEFAULT_BATCH_SIZE)
    /\ UNCHANGED <<bvars, rvars, avars, tvars>>

\* one turn of the summarization loop of index_document
SummarizeBatch(resp) ==
    /\ i_pc = "batches"
    /\ LET i == Len(i_sections) + 1
       IN /\ i_sections' = Append(i_sections,
                 Section(i, i_batches[i], _summarize_batch(i_batches[i], resp)))
          /\ i_log' = Append(i_log, [call |-> "batch", batch |-> i,
                                     input |-> pages_text(i_batches[i]),
                                     failed |-> resp.kind = "raise"])
          /\ i_pc' = IF i = Len(i_batches) THEN "global" ELSE "batches"
    /\ UNCHANGED <<pdf, out_dir, clock, caller, batch_size, i_pages, i_batches,
                   i_index, i_error, history>>
    /\ UNCHANGED <<bvars, rvars, avars, tvars>>

\* the rest of index_document: _summarize_document, the metadata,
\* _create_index and _save_index
SummarizeDocument(resp) ==
    /\ i_pc = "global"
    /\ LET index == _create_index(
                        _extract_metadata_from_content(i_pages, pdf, clock + 1),
                        _summarize_document(i_sections, resp), i_sections)
       IN /\ i_index' = <<index>>
          /\ out_dir' = _save_index(out_dir, index)
    /\ clock' = clock + 1
    /\ i_log' = Append(i_log, [call |-> "global", batch |-> 0,
                               input |-> sections_text(i_sections),
                               failed |-> resp.kind = "raise"])
    /\ i_pc' = "returned"
    /\ history' = IF caller.who = "job"
                  THEN Append(history,
                         JobRecord(caller, "generated", Len(i_log'), out_dir'))
                  ELSE history
    /\ UNCHANGED <<pdf, caller, batch_size, i_pages, i_batches, i_sections,
                   i_error>>
    /\ UNCHANGED <<bvars, rvars, avars, tvars>>

\* the indexer at rest, for the other specifications
IIdle ==
    /\ IInit
    /\ pdf = [exists |-> FALSE, stem |-> "proc-jub-001", code |-> None,
              words |-> <<>>]
    /\ out_dir = {}

\* the retrieval side at rest, for the specification of the ReAct loop
RIdle ==
    /\ RInit
    /\ indices_dir = [exists |-> FALSE, files |-> {}]
    /\ documents_dir = [exists |-> FALSE, count |-> 0]

\* the ReAct loop at rest, for the specification of the retrieval
BIdle ==
    /\ BInit
    /\ max_iterations = 0


(***************************************************************************)
(* Properties of AgenteBuscador.run                                        *)
(***************************************************************************)
Last(s) == s[Len(s)]

ConstantSignature(obs) ==
    /\ obs # <<>>
    /\ \A i \in 1..Len(obs) : signature(obs[i]) = signature(obs[1])

\* every iteration executed so far selected a tool (no free-text response)
OnlyToolCalls == Len(observations) = iteration

ActCalls == Len(SelectSeq(gateway_log, LAMBDA c : c.call = "act"))

MetaError == IF response = <<>> THEN "" ELSE Get(response[1].metadata, "error", "")

\* C1 as stated: whenever every action selected has the same signature, the
\* run ends flagged loop_detected, whatever max_iterations is.
C1_ConstantSignatureAlwaysLoopDetected ==
    (b_pc = "returned" /\ OnlyToolCalls /\ ConstantSignature(observations))
        => MetaError = "loop_detected"

\* C1 amended: with a constant signature the run never executes more than
\* MAX_LOOP_REPEATS such actions, whatever max_iterations is; the
\* MAX_LOOP_REPEATS-th one ends the run flagged loop_detected; a run of tool
\* calls that ends earlier ends by the finish tool or by the iteration budget
\* (max_iterations < MAX_LOOP_REPEATS).
C1_ConstantSignatureTerminates ==
    ConstantSignature(observations) =>
        /\ Len(observations) <= MAX_LOOP_REPEATS
        /\ Len(observations) = MAX_LOOP_REPEATS =>
              (b_pc = "returned" /\ MetaError = "loop_detected")
        /\ (b_pc = "returned" /\ OnlyToolCalls
                /\ Len(observations) < MAX_LOOP_REPEATS) =>
              \/ Last(observations).tool = "finish"
              \/ /\ MetaError = "max_iterations_reached"
                 /\ max_iterations = Len(observations)
                 /\ max_iterations < MAX_LOOP_REPEATS

C1_Witness ==
    /\ b_pc = "returned"
    /\ ConstantSignature(observations)
    /\ Len(observations) = MAX_LOOP_REPEATS
    /\ observations[1].input # observations[2].input
    /\ MetaError = "loop_detected"
    /\ max_iterations > MAX_LOOP_REPEATS

\* the last action step got a tool call (its observation was appended)
LastWasTool ==
    /\ gateway_log # <<>>
    /\ Last(gateway_log).call = "act"
    /\ Len(observations) > Last(gateway_log).nobs

\* a termination condition other than the budget fired in the last iteration
OtherConditionFired ==
    \/ LastWasTool /\ (_detect_loop(observations)
                          \/ Last(observations).tool = "finish")
    \/ ~LastWasTool /\ gateway_log # <<>> /\ observations # <<>>

\* C2: when every Gateway response returns normally the run makes at most
\* max_iterations action calls, ends by returning an AgentResponse, and when
\* no other termination condition fired that response is the partial summary
\* annotated max_iterations_reached, completed = false.
C2_BudgetBoundsRun ==
    /\ iteration <= max_iterations
    /\ ActCalls <= max_iterations
    /\ b_pc = "running" => (iteration < max_iterations /\ ActCalls = iteration)
    /\ fault = "none" => b_pc # "raised"
    /\ b_pc = "returned" => Len(response) = 1
    /\ (b_pc = "returned" /\ ~OtherConditionFired) =>
          /\ iteration = max_iterations
          /\ ActCalls = max_iterations
          /\ response[1] = _fallback_response(Query, observations, current_plan)
          /\ response[1].metadata.error = "max_iterations_reached"
          /\ response[1].metadata.completed = FALSE
          /\ response[1].content.kind = "fallback"

C2_Witness ==
    /\ b_pc = "returned"
    /\ ~OtherConditionFired
    /\ max_iterations = MaxIter
    /\ ActCalls = MaxIter
    /\ Len(observations) >= 2
    /\ MetaError = "max_iterations_reached"

\* C3: an exception raised by a tool's execute() never escapes run; it is
\* recorded as an observation with an error field.
C3_ToolExceptionNeverEscapes ==
    ~(b_pc = "raised" /\ fault = "tool_execute")

C5_StepsIncreaseFromOne ==
    /\ \A i \in 1..Len(observations) - 1 :
          observations[i].step < observations[i + 1].step
    /\ observations # <<>> => observations[1].step = 1


(***************************************************************************)
(* Properties of AgentRetrieval                                            *)
(***************************************************************************)
\* the Gateway's answer gave Phases 1 and 2 nothing to parse
Unparseable(resp) ==
    \/ resp.kind = "raise"
    \/ resp.form \in {"garbage", "prose"}
    \/ resp.value.type # "dict"

ReadsIn(log) == SelectSeq(log, LAMBDA e : e.op # "generate")

CallsIn(log, what) ==
    SelectSeq(log, LAMBDA e : e.op = "generate" /\ e.phase = what)

\* Phase 1 has answered and its relevant-document list is empty
Phase1Empty ==
    /\ entry = "retrieve_with_index"
    /\ indices # {}
    /\ Len(responses) >= 1
    /\ relevant_docs = <<>>

\* C6: with at least one index loaded, an empty Phase 1 list (empty answer,
\* unparseable answer or Gateway failure) gives the zero-chunk result with
\* method agent_rag_indexed and the fixed message, and no Phase 2 or Phase 3
\* Gateway call and no content read is made.
C6_EmptyPhase1EndsRetrieval ==
    /\ Phase1Empty =>
          /\ r_pc = "returned"
          /\ r_result[1].chunks = <<>>
          /\ r_result[1].method = "agent_rag_indexed"
          /\ r_result[1].message =
                "No se encontraron documentos relevantes para tu consulta"
          /\ CallsIn(r_log, "phase2") = <<>>
          /\ CallsIn(r_log, "phase3") = <<>>
          /\ CallsIn(r_log, "judge") = <<>>
          /\ ReadsIn(r_log) = <<>>
    /\ (entry = "retrieve_with_index" /\ indices # {} /\ Len(responses) >= 1
            /\ Unparseable(responses[1])) => relevant_docs = <<>>

C6_Witness ==
    /\ Phase1Empty
    /\ Cardinality(indices) = 2
    /\ responses[1].kind = "text"
    /\ responses[1].form = "prose"
    /\ r_pc = "returned"

\* the Phase 2 answers so far: responses[j + 1] is the answer for
\* relevant_docs[j]
Phase2Answer(j) == responses[j + 1]

\* C7: when the Phase 2 answer for one relevant document cannot be parsed or
\* the call fails, the section ids selected for it are exactly all section
\* ids of its index, and the other relevant documents are processed as their
\* own answers say.
C7_Phase2FallbackSelectsAllSections ==
    /\ \A j \in 1..Len(selected) :
          LET index == IndexOf(indices, relevant_docs[j])
          IN IF Unparseable(Phase2Answer(j))
             THEN selected[j] = AllSectionIds(index.sections)
             ELSE selected[j] =
                    Get(Phase2Answer(j).value.fields, "relevant_sections", <<>>)
    /\ (r_pc \in {"phase2", "phase3", "returned", "raised"}
            /\ entry = "retrieve_with_index" /\ relevant_docs # <<>>) =>
          \/ r_pc = "phase2" /\ doc_idx = Len(selected) + 1
          \/ r_pc \in {"phase3", "returned"}
                /\ Len(selected) = Len(relevant_docs)
          \/ r_pc = "raised" /\ ~Unparseable(Last(responses))
    /\ \A j \in 1..Len(selected) :
          Unparseable(Phase2Answer(j)) =>
             LET ids == AllSectionIds(IndexOf(indices, relevant_docs[j]).sections)
             IN \A n \in 1..Len(ids) :
                   \E i \in 1..Len(all_sections) :
                      /\ all_sections[i].section_id = ids[n]
                      /\ all_sections[i].metadata.document_id = relevant_docs[j]

C7_Witness ==
    /\ Len(selected) = 2
    /\ relevant_docs = <<"PROC-B", "PROC-A">>
    /\ Unparseable(Phase2Answer(1))
    /\ ~Unparseable(Phase2Answer(2))
    /\ selected[1] = <<"1", "2", "3">>
    /\ selected[2] = <<"1">>
    /\ r_pc = "returned"
    /\ Len(r_result[1].chunks) = 4

NoLoadableIndex == _load_all_indices(indices_dir) = {}

\* C8: with the index directory missing or holding no loadable index file,
\* retrieve_with_index does not fail and returns chunks and method, method
\* being agent_rag.
C8_NoIndexFallsBackWithoutFailing ==
    (entry = "retrieve_with_index" /\ NoLoadableIndex) =>
        /\ r_pc # "raised"
        /\ r_pc = "returned" =>
              /\ {"chunks", "method"} \subseteq DOMAIN r_result[1]
              /\ r_result[1].method = "agent_rag"

\* C9: a document whose evaluation errors or is malformed gets relevance
\* score 0.0, and retrieve returns normally: one bad evaluation never makes
\* the call raise.
C9_MalformedEvaluationScoresZero ==
    /\ \A i \in 1..Len(documents) :
          malformed[i] = "malformed" =>
             Get(evaluations[i][1], "relevance_score", -1) = 0
    /\ r_error # "KeyError"

RECURSIVE NonIncreasing(_)
NonIncreasing(chunks) ==
    \/ Len(chunks) < 2
    \/ chunks[1].score >= chunks[2].score /\ NonIncreasing(Tail(chunks))

Min(a, b) == IF a < b THEN a ELSE b

ReturnedDocs == {r_result[1].chunks[i].content : i \in 1..Len(r_result[1].chunks)}

\* C10: when retrieve returns over n evaluated documents with k >= 0, it
\* returns exactly min(k, n) chunks, of distinct documents each carrying its
\* own score, in non-increasing score order, and every document left out
\* scores no more than every document returned.
C10_TopKSortedByScore ==
    (r_pc = "returned" /\ r_result[1].method = "agent_rag") =>
        LET chunks == r_result[1].chunks
        IN /\ Len(chunks) = Min(k, Len(documents))
           /\ NonIncreasing(chunks)
           /\ Cardinality(ReturnedDocs) = Len(chunks)
           /\ \A i \in 1..Len(chunks) :
                 /\ chunks[i].content \in 1..Len(documents)
                 /\ chunks[i].score =
                       evaluations[chunks[i].content][1].relevance_score
           /\ \A d \in (1..Len(documents)) \ ReturnedDocs :
                 \A i \in 1..Len(chunks) :
                    evaluations[d][1].relevance_score <= chunks[i].score

C10_Witness ==
    /\ r_pc = "returned"
    /\ r_result[1].method = "agent_rag"
    /\ entry = "retrieve"
    /\ Len(documents) = 3
    /\ k = 2
    /\ evaluations[1][1].relevance_score = 0
    /\ evaluations[2][1].relevance_score = 150
    /\ evaluations[3][1].relevance_score = 50
    /\ r_result[1].chunks[1].content = 2
    /\ r_result[1].chunks[2].content = 3

\* the most recent observation's output has an error field or a count of 0
LastOutputFailedOrEmpty ==
    /\ observations # <<>>
    /\ LET output == Last(observations).output
       IN \/ "error" \in DOMAIN output
          \/ "count" \in DOMAIN output /\ output.count = 0

\* the Gateway calls an iteration adds to the log
NewCalls == SubSeq(gateway_log', Len(gateway_log) + 1, Len(gateway_log'))

PlanCallIssued == NewCalls # <<>> /\ NewCalls[1].call = "plan"

\* C20: an iteration of run issues a plan call if and only if no plan exists
\* yet or the most recent observation's output has an error field or a
\* count of exactly 0, and the plan call comes first; otherwise the current
\* plan is left unchanged.
C20_ReplanOnlyOnFailureOrEmptiness ==
    [][(b_pc = "running" /\ gateway_log' # gateway_log) =>
          /\ PlanCallIssued <=> (current_plan = None \/ LastOutputFailedOrEmpty)
          /\ \A j \in 2..Len(NewCalls) : NewCalls[j].call # "plan"
          /\ ~PlanCallIssued => current_plan' = current_plan]_vars

PlanCallsAt(it) ==
    {j \in 1..Len(gateway_log) :
        gateway_log[j].call = "plan" /\ gateway_log[j].iteration = it}

\* three iterations: a plan at the first; none at the second, after a
\* read_document that gave content and no count; one at the third, after a
\* result with count 0 and no error
C20_Witness ==
    /\ Len(observations) >= 2
    /\ observations[1].tool = "read_document"
    /\ DOMAIN observations[1].output \cap {"error", "count"} = {}
    /\ "error" \notin DOMAIN observations[2].output
    /\ "count" \in DOMAIN observations[2].output
    /\ observations[2].output.count = 0
    /\ PlanCallsAt(0) # {}
    /\ PlanCallsAt(1) = {}
    /\ PlanCallsAt(2) # {}

\* the iteration just taken got free text from the action step
GotText ==
    /\ b_pc = "running"
    /\ gateway_log' # gateway_log
    /\ Last(gateway_log').call = "act"
    /\ b_result' # <<>>
    /\ b_result'[1].kind = "text"

Blank(t) == \A i \in 1..Len(t) : t[i] = " "

\* C21: when the action step gets free text and there is at least one
\* observation, run returns at once: the text itself (finished_by =
\* text_response) when it is not blank, a summary built from the history
\* (finished_by = auto_summary) when it is blank. With no observation that
\* response does not end the run and records no observation: the loop goes
\* on to its next iteration, and only an exhausted budget ends the run, by
\* the fallback response.
C21_FreeTextEndsRunOnlyWithHistory ==
    [][GotText =>
          LET text == b_result'[1].text
          IN /\ (observations # <<>> /\ ~Blank(text)) =>
                    /\ b_pc' = "returned"
                    /\ response'[1].content = [kind |-> "text", text |-> text]
                    /\ response'[1].metadata.finished_by = "text_response"
                    /\ observations' = observations
             /\ (observations # <<>> /\ Blank(text)) =>
                    /\ b_pc' = "returned"
                    /\ response'[1].content.kind = "auto"
                    /\ response'[1].content.results = useful_results(observations)
                    /\ response'[1].metadata.finished_by = "auto_summary"
                    /\ observations' = observations
             /\ observations = <<>> =>
                    /\ observations' = <<>>
                    /\ iteration' = iteration + 1
                    /\ IF iteration + 1 < max_iterations
                       THEN b_pc' = "running" /\ response' = <<>>
                       ELSE /\ b_pc' = "returned"
                            /\ response'[1].metadata.error = "max_iterations_reached"]_vars

\* a run whose first action step got free text with no history, which went on
\* to record its first observation at step 2, and which a later blank text
\* ended with the summary built from the history
C21_Witness ==
    /\ b_pc = "returned"
    /\ observations # <<>>
    /\ observations[1].step = 2
    /\ b_result # <<>>
    /\ b_result[1].kind = "text"
    /\ Blank(b_result[1].text)
    /\ "finished_by" \in DOMAIN response[1].metadata
    /\ response[1].metadata.finished_by = "auto_summary"

\* the argument pairs of an observation, whatever the order they came in
ArgPairs(o) == {o.input[i] : i \in 1..Len(o.input)}

SameAction(o1, o2) == o1.tool = o2.tool /\ ArgPairs(o1) = ArgPairs(o2)

\* how many observations of the whole history are the latest one's action
SameAsLatest ==
    Cardinality({i \in 1..Len(observations) :
                    SameAction(observations[i], Last(observations))})

LoopFlagged ==
    /\ b_pc = "returned"
    /\ "error" \in DOMAIN response[1].metadata
    /\ response[1].metadata.error = "loop_detected"

\* C22: loop detection has fired on the latest observation exactly when at
\* least max_repeats observations of the whole history, consecutive or not,
\* have the latest one's tool and the same argument pairs in any order.
C22_LoopDetectedIffSignatureRepeated ==
    observations # <<>> =>
        (LoopFlagged <=> SameAsLatest >= MAX_LOOP_REPEATS)

\* a run flagged at its fourth observation: the latest action was taken three
\* times, once with its arguments in another order, with another tool's call
\* in between
C22_Witness ==
    /\ LoopFlagged
    /\ Len(observations) = 4
    /\ SameAsLatest = MAX_LOOP_REPEATS
    /\ \E i \in 1..3 : /\ SameAction(observations[i], Last(observations))
                       /\ observations[i].input # Last(observations).input
    /\ \E i \in 2..3 : observations[i].tool # Last(observations).tool

\* an observation the partial summary has a line for
IsUseful(o) ==
    /\ "error" \notin DOMAIN o.output
    /\ "count" \in DOMAIN o.output
    /\ o.output.count > 0

\* one line per useful observation, in history order: the tool and the count
ListedLines(obs) ==
    LET sel == SelectSeq(obs, IsUseful)
    IN [i \in 1..Len(sel) |-> <<sel[i].tool, sel[i].output.count>>]

PartialSummaryOf(obs) ==
    [kind |-> "partial", query |-> Query,
     results |-> ListedLines(obs),
     nothing_found |-> (ListedLines(obs) = <<>>)]

EndedByGuard ==
    /\ b_pc = "returned"
    /\ "error" \in DOMAIN response[1].metadata

\* C23: a response that ends the run by loop detection or by budget
\* exhaustion carries the partial summary, which is fixed by the query and the
\* observation list: one line, in history order, for exactly the observations
\* whose output has no error and a count above 0, and the statement that
\* nothing was found when there is none. The loop-detection response has the
\* summary as its content and is annotated loop_detected; the
\* budget response has it followed by the limit note and is annotated
\* max_iterations_reached.
C23_PartialSummaryListsUsefulObservations ==
    EndedByGuard =>
        LET r == response[1]
        IN /\ r.metadata.observations = observations
           /\ r.metadata.error \in {"loop_detected", "max_iterations_reached"}
           /\ r.metadata.error = "loop_detected" =>
                  r.content = PartialSummaryOf(observations)
           /\ r.metadata.error = "max_iterations_reached" =>
                  /\ r.content.kind = "fallback"
                  /\ r.content.partial = PartialSummaryOf(observations)
                  /\ r.content.limit = max_iterations

\* a run ended by loop detection whose summary has lines, and fewer lines than
\* observations: an observation with an error or a count of 0 was left out
C23_Witness ==
    /\ EndedByGuard
    /\ response[1].metadata.error = "loop_detected"
    /\ response[1].content.results # <<>>
    /\ Len(response[1].content.results) < Len(observations)
    /\ \E i \in 1..Len(observations) :
          /\ "count" \in DOMAIN observations[i].output
          /\ observations[i].output.count = 0

\* the Gateway calls of one iteration, in the order they were issued
CallsOfIteration(it) ==
    SelectSeq(gateway_log, LAMBDA e : e.iteration = it)

\* the observations recorded by the iterations before iteration it
RecordedBefore(it) ==
    Cardinality({i \in 1..Len(observations) : observations[i].step <= it})

\* C24: the Gateway calls of a run are issued one after the other, iteration
\* by iteration, and none is repeated: an iteration issues its action call
\* once, after at most one plan call, and an iteration that has ended without
\* raising has issued it; an action call is issued with every observation of
\* the earlier iterations already in the history; so the run makes at most
\* 2 * max_iterations calls.
C24_GatewayCallsSequentialNeverRetried ==
    /\ \A j \in 1..Len(gateway_log) - 1 :
          gateway_log[j].iteration <= gateway_log[j + 1].iteration
    /\ \A it \in 0..MaxIter :
          LET calls == CallsOfIteration(it)
          IN /\ calls = <<>> \/ it < max_iterations
             /\ Len(calls) <= 2
             /\ Len(calls) = 2 =>
                   calls[1].call = "plan" /\ calls[2].call = "act"
             /\ (it < iteration) =>
                   calls # <<>> /\ calls[Len(calls)].call = "act"
             /\ \A j \in 1..Len(calls) :
                   calls[j].nobs = RecordedBefore(it)
    /\ Len(gateway_log) <= 2 * max_iterations

\* a run that used its whole budget of three or more iterations and planned
\* again in each of them: 2 * max_iterations calls
C24_Witness ==
    /\ b_pc = "returned"
    /\ max_iterations >= 3
    /\ Len(gateway_log) = 2 * max_iterations
    /\ Len(observations) >= 2

(***************************************************************************)
(* Properties of retrieval results                                         *)
(***************************************************************************)
Returned == r_pc = "returned" /\ r_result # <<>>

ResultChunks == r_result[1].chunks

JudgeResult == Returned /\ r_result[1].method = "agent_rag"

IndexedResult == Returned /\ r_result[1].method = "agent_rag_indexed"

\* C17: a returned result has no chunks only when nothing was judged
\* relevant: an index-guided result has chunks whenever some section was
\* selected and loaded, a judge result has chunks whenever some document
\* scored above 0 and k > 0, and every chunk of a judge result scored
\* above 0.
C17_EmptyOnlyWhenNothingRelevant ==
    /\ (IndexedResult /\ all_sections # <<>>) => ResultChunks # <<>>
    /\ (JudgeResult /\ k > 0
          /\ \E i \in 1..Len(evaluations) :
                 evaluations[i][1].relevance_score > 0) => ResultChunks # <<>>
    /\ JudgeResult =>
          \A i \in 1..Len(ResultChunks) : ResultChunks[i].score > 0

\* C18: every chunk of every returned result has a score within [0,1], that
\* is 0..100 as a percentage, whatever relevance_score the Gateway gave.
C18_ScoresWithinUnitInterval ==
    Returned =>
        \A i \in 1..Len(ResultChunks) :
            ResultChunks[i].score >= 0 /\ ResultChunks[i].score <= 100

\* the evaluation computed for document d: the one that names it
EvaluationFor(d) ==
    LET i == CHOOSE j \in 1..Len(evaluations) :
                 evaluations[j] # <<>> /\ evaluations[j][1].document_id = d
    IN evaluations[i][1]

\* the documents with the score and reasoning computed for each, in
\* document order
ScoredByOwnEvaluation ==
    [i \in 1..Len(documents) |->
        [doc |-> documents[i],
         score |-> EvaluationFor(documents[i]).relevance_score,
         reasoning |-> EvaluationFor(documents[i]).reasoning]]

\* C25: in judge retrieval every evaluation call has been issued before any
\* evaluation completes, and a result exists only once all have completed;
\* whatever the order in which they completed, each chunk carries the score
\* and reasoning computed for its own document, and the result is the
\* ranking of the documents with their own evaluations.
C25_FanOutFanInKeepsScoresWithDocuments ==
    /\ Completed # {} =>
          Len(CallsIn(r_log, "judge")) = Len(documents)
    /\ JudgeResult =>
          /\ Completed = 1..Len(documents)
          /\ \A i \in 1..Len(ResultChunks) :
                LET c == ResultChunks[i]
                IN /\ c.score = EvaluationFor(c.content).relevance_score
                   /\ c.reasoning = EvaluationFor(c.content).reasoning
          /\ ResultChunks =
                FormatChunks(TopK(SortByScoreDesc(ScoredByOwnEvaluation), k))

\* a result over three documents with different scores of which one was
\* evaluated before an earlier document was
C25_Witness ==
    /\ JudgeResult
    /\ reordered
    /\ Len(documents) = 3
    /\ Len(ResultChunks) >= 2
    /\ ResultChunks[1].score # ResultChunks[2].score
    /\ ResultChunks[1].content # 1

\* the page range an index section stands for
RangeOf(s) ==
    IF "pages" \in DOMAIN s THEN <<s.pages[1], s.pages[Len(s.pages)]>>
    ELSE <<s.page_start, s.page_end>>

\* the section was named by the Phase 2 answer for a document of the
\* Phase 1 list
IsSelected(index, s) ==
    \E j \in 1..Len(selected) :
        /\ IndexOf(indices, relevant_docs[j]) = index
        /\ \E i \in 1..Len(index.sections) : index.sections[i] = s
        /\ InSeq(s.section_id, selected[j])

\* C26: every chunk of an index-guided result stands for a section whose id
\* the Phase 2 answer selected for a document of the Phase 1 list: it has
\* score 1.0 and its citation names that document's code, that section's
\* title and that section's page range; and every page-addressed read made
\* is the read of such a section's page range.
C26_ChunksAreSelectedSections ==
    /\ IndexedResult =>
          \A c \in 1..Len(ResultChunks) :
              LET chunk == ResultChunks[c]
              IN /\ chunk.score = 100
                 /\ \E index \in indices :
                       \E i \in 1..Len(index.sections) :
                           LET s == index.sections[i]
                           IN /\ IsSelected(index, s)
                              /\ chunk.metadata.document_id = index.document_id
                              /\ chunk.citation =
                                    <<index.procedure_code, s.title,
                                      RangeOf(s)[1], RangeOf(s)[2]>>
    /\ \A r \in 1..Len(r_log) :
          r_log[r].op = "read_pdf_pages" =>
              \E index \in indices :
                  \E i \in 1..Len(index.sections) :
                      LET s == index.sections[i]
                      IN /\ IsSelected(index, s)
                         /\ r_log[r].doc = index.document_id
                         /\ <<r_log[r].page_start, r_log[r].page_end>> = RangeOf(s)

\* a result with chunks of two documents from which a section of a selected
\* document was left out, since Phase 2 did not select it
C26_Witness ==
    /\ IndexedResult
    /\ Len(relevant_docs) = 2
    /\ \E a, b \in 1..Len(ResultChunks) :
          ResultChunks[a].metadata.document_id #
             ResultChunks[b].metadata.document_id
    /\ \E j \in 1..Len(selected) :
          LET index == IndexOf(indices, relevant_docs[j])
          IN /\ selected[j] # <<>>
             /\ \E i \in 1..Len(index.sections) :
                    ~InSeq(index.sections[i].section_id, selected[j])

\* C27: for every relevant document, at most 5 section ids are carried from
\* Phase 2 into the content loading, whatever list the Gateway returned and
\* also when the parse-failure fallback applied.
C27_SelectedSectionsCapped ==
    \A j \in 1..Len(selected) : Len(selected[j]) <= SectionCap

\* the ids of the loaded index set
IndexKeys == {d.document_id : d \in indices}

\* Phase 1 has answered with a JSON object that lists document ids
Phase1Listed ==
    /\ entry = "retrieve_with_index"
    /\ indices # {}
    /\ Len(responses) >= 1
    /\ responses[1].kind = "text"
    /\ responses[1].form \in {"plain", "fenced"}
    /\ responses[1].value.type = "dict"
    /\ "relevant_documents" \in DOMAIN responses[1].value.fields

Phase1Ids == responses[1].value.fields.relevant_documents

\* C29: Phase 2 and Phase 3 of retrieve_with_index work only on documents
\* whose ids are keys of the loaded index set: of the ids the Phase 1 answer
\* lists, those that are not a loaded index are dropped and the others kept
\* in order; every Phase 2 call, every content read and every chunk is for a
\* loaded document that Phase 1 listed; and when every listed id is unknown
\* the result is the zero-chunk "no relevant documents" result.
C29_UnknownDocumentIdsDropped ==
    /\ \A j \in 1..Len(relevant_docs) : relevant_docs[j] \in IndexKeys
    /\ Phase1Listed =>
          /\ relevant_docs = SelectSeq(Phase1Ids, LAMBDA id : id \in IndexKeys)
          /\ \A e \in 1..Len(r_log) :
                (r_log[e].op # "generate" \/ r_log[e].phase = "phase2") =>
                    /\ r_log[e].doc \in IndexKeys
                    /\ InSeq(r_log[e].doc, Phase1Ids)
          /\ IndexedResult =>
                \A c \in 1..Len(ResultChunks) :
                    /\ ResultChunks[c].metadata.document_id \in IndexKeys
                    /\ InSeq(ResultChunks[c].metadata.document_id, Phase1Ids)
          /\ (\A i \in 1..Len(Phase1Ids) : Phase1Ids[i] \notin IndexKeys) =>
                /\ r_pc = "returned"
                /\ r_result = <<[chunks |-> <<>>, method |-> "agent_rag_indexed",
                                 message |-> "No se encontraron documentos relevantes para tu consulta"]>>
                /\ CallsIn(r_log, "phase2") = <<>>

\* a result whose Phase 1 answer listed an unknown id and a loaded one: only
\* the loaded document went through Phase 2 and Phase 3
C29_Witness ==
    /\ Phase1Listed
    /\ IndexedResult
    /\ \E i \in 1..Len(Phase1Ids) : Phase1Ids[i] \notin IndexKeys
    /\ relevant_docs # <<>>
    /\ Len(relevant_docs) < Len(Phase1Ids)
    /\ ResultChunks # <<>>

(***************************************************************************)
(* Properties of index_document and the bulk indexing job                  *)
(***************************************************************************)
SavedIndex == i_index[1]

\* the pages a section's page_range covers
RangePages(sec) == sec.page_range[1]..sec.page_range[2]

SourcePages == 1..Len(pdf.words)

\* C11: in every index index_document produces, the sections' page ranges
\* are strictly increasing, do not overlap, and together cover exactly the
\* pages 1..N of the source document, also when some pages have no text.
C11_SectionRangesCoverDocument ==
    i_pc = "returned" =>
        LET secs == SavedIndex.sections
        IN /\ \A i \in 1..Len(secs) :
                  secs[i].page_range[1] <= secs[i].page_range[2]
           /\ \A i \in 1..(Len(secs) - 1) :
                  secs[i].page_range[2] < secs[i + 1].page_range[1]
           /\ UNION {RangePages(secs[i]) : i \in 1..Len(secs)} = SourcePages

\* C12: when the bulk job runs twice over a document and the first run
\* generated its index, a second run with reindex = false makes no Gateway
\* call and leaves the directory's files as they were, and a second run
\* with reindex = true leaves the newly generated index in the file.
C12_SecondRunRespectsReindex ==
    (Len(history) >= 2 /\ history[1].outcome = "generated") =>
        /\ ~history[2].reindex =>
               /\ history[2].calls = 0
               /\ history[2].dir = history[1].dir
        /\ (history[2].reindex /\ Len(history) = 2 /\ i_pc = "returned") =>
               IndexFile(SavedName(SavedIndex), SavedIndex) \in history[2].dir

FailedCalls == {j \in 1..Len(i_log) : i_log[j].failed}

\* C13: a Gateway failure while summarizing a batch does not abort
\* index_document: that batch's section gets the truncated text of the batch
\* (at most 200 words and "..."), every batch still gets its section and the
\* index is saved; when the global summary's Gateway call fails, the index's
\* summary is the first section's summary.
C13_GatewayFailureDegradesSummaries ==
    /\ \A j \in FailedCalls :
           /\ i_pc # "raised"
           /\ i_log[j].call = "batch" =>
                  LET s == i_sections[i_log[j].batch].summary
                  IN /\ s.source = "truncated"
                     /\ s.from_page = i_batches[i_log[j].batch][1].page_num
                     /\ s.words <= FALLBACK_WORDS
                     /\ s.ellipsis
    /\ i_pc = "returned" =>
           /\ Len(SavedIndex.sections) = Len(i_batches)
           /\ IndexFile(SavedName(SavedIndex), SavedIndex) \in out_dir
           /\ i_log[Len(i_log)].failed =>
                  SavedIndex.summary = SavedIndex.sections[1].summary

\* a two-batch document whose first batch summary and global summary both
\* failed: the first section holds 200 truncated words, the second the
\* Gateway's summary, and the index was saved
C13_Witness ==
    /\ i_pc = "returned"
    /\ Len(i_batches) = 2
    /\ i_log[1].failed
    /\ ~i_log[2].failed
    /\ i_log[3].failed
    /\ SavedIndex.sections[1].summary.source = "truncated"
    /\ SavedIndex.sections[1].summary.words = FALLBACK_WORDS
    /\ SavedIndex.sections[2].summary.source = "gateway"
    /\ SavedIndex.summary = SavedIndex.sections[1].summary

\* C19: an index index_document has written is loaded, under its
\* document_id, by _load_all_indices on the same directory, and is found by
\* the bulk job's check for an existing index.
C19_WrittenIndexIsFoundByReaders ==
    i_pc = "returned" =>
        /\ SavedIndex.document_id \in
               LoadedIds(_load_all_indices([exists |-> TRUE, files |-> out_dir]))
        /\ IndexFileExists(out_dir, pdf)

\* the calls index_document has issued so far, by kind
BatchCalls == SelectSeq(i_log, LAMBDA e : e.call = "batch")

GlobalCalls == SelectSeq(i_log, LAMBDA e : e.call = "global")

\* ceil(p / b)
CeilDiv(p, b) == (p + b - 1) \div b

\* the summaries of the sections built so far
BatchSummaries == [j \in 1..Len(i_sections) |-> i_sections[j].summary]

\* C28: index_document over P text pages with batch size b issues its batch
\* calls one after the other in page order, each on the pages of its batch,
\* ceil(P / b) of them in all; then exactly one global call, issued once
\* every batch summary exists, on the batch summaries and not on the pages;
\* and the index is created and saved only in the step that obtains the
\* global summary.
C28_BatchCallsThenOneGlobalCall ==
    /\ [](i_pc \in {"batches", "global", "returned"} =>
            LET n == CeilDiv(Len(i_pages), batch_size)
            IN /\ Len(BatchCalls) <= n
               /\ Len(GlobalCalls) <= 1
               /\ i_log = BatchCalls \o GlobalCalls
               /\ \A j \in 1..Len(BatchCalls) :
                     /\ BatchCalls[j].batch = j
                     /\ BatchCalls[j].input.kind = "pages"
                     /\ \A q \in 1..Len(BatchCalls[j].input.of) :
                           BatchCalls[j].input.of[q] =
                              i_pages[(j - 1) * batch_size + q].page_num
               /\ Len(BatchSummaries) = Len(BatchCalls)
               /\ GlobalCalls # <<>> =>
                     /\ Len(BatchCalls) = n
                     /\ GlobalCalls[1].input.kind = "summaries"
                     /\ [j \in 1..n |-> GlobalCalls[1].input.of[j][3]]
                           = BatchSummaries
               /\ i_pc = "returned" <=> GlobalCalls # <<>>
               /\ i_pc = "global" <=> (Len(BatchCalls) = n /\ GlobalCalls = <<>>)
               /\ GlobalCalls = <<>> => i_index = <<>>)
    /\ [][out_dir' # out_dir =>
             /\ i_pc = "global"
             /\ i_log' = Append(i_log, Last(i_log'))
             /\ Last(i_log').call = "global"]_vars

\* an indexing of three text pages in batches of two: two batch calls, the
\* second on the last page alone, then the global call, then the save
C28_Witness ==
    /\ i_pc = "returned"
    /\ Len(i_pages) = 3
    /\ batch_size = 2
    /\ Len(BatchCalls) = 2
    /\ Len(GlobalCalls) = 1
    /\ i_index # <<>>

(***************************************************************************)
(* AgenteAsistente.run (src/agents/asistente/agent.py)                     *)
(***************************************************************************)
\* the fixed refusal of run when retrieval found nothing
NoInformationFound == "Lo siento, no encontre informacion especifica"

\* top_k=5 if not self.agentic_rag else 3
TopKArgument(agentic) == IF agentic THEN 3 ELSE 5

\* what retrieval_tool.execute can give: a result with at most top_k chunks
\* (each a dict with content and citation) under the tool's method, or an
\* exception
RetrievalResults(agentic) ==
    {[kind |-> "raise"]}
    \cup {[kind |-> "result",
           chunks |-> [i \in 1..n |-> [content |-> i, citation |-> i]],
           method |-> IF agentic THEN "agent_rag" ELSE "vector_rag"] :
            n \in 0..TopKArgument(agentic)}

ClassifierFallback == JsonDict([needs_checklist |-> FALSE, confidence |-> 0])

ClassifierResponses ==
    {GatewayRaise, GatewayText("garbage", NoJson),
     GatewayText("plain", JsonList),
     GatewayText("plain", JsonDict([reasoning |-> "r"])),
     GatewayText("prose", JsonDict([reasoning |-> "r"])),
     GatewayText("prose", JsonDict([needs_checklist |-> TRUE])),
     GatewayText("fenced", JsonDict([needs_checklist |-> TRUE])),
     GatewayText("plain", JsonDict([needs_checklist |-> TRUE])),
     GatewayText("plain", JsonDict([needs_checklist |-> FALSE]))}

\* IntentClassifierAgent._parse_json_response: json.loads of the stripped,
\* unfenced text; else the first {...} with needs_checklist defaulted to
\* False; else the fallback
IntentParseJsonResponse(resp) ==
    IF resp.form \in {"plain", "fenced"} THEN resp.value
    ELSE IF resp.form = "prose" /\ resp.value.type = "dict"
    THEN IF "needs_checklist" \in DOMAIN resp.value.fields
         THEN resp.value
         ELSE JsonDict([needs_checklist |-> FALSE])
    ELSE ClassifierFallback

\* IntentClassifierAgent.classify: any exception gives the fallback
classify(resp) ==
    IF resp.kind = "raise" THEN ClassifierFallback
    ELSE IntentParseJsonResponse(resp)

AInit ==
    /\ a_pc = "idle"
    /\ agentic_rag \in BOOLEAN
    /\ use_checklist = TRUE
    /\ a_retrieval = <<>>
    /\ a_response = <<>>
    /\ a_error = "none"
    /\ a_log = <<>>

\* the refusal returned without answering, the error mark left blank
NoChunksResponse_Unmarked(method) ==
    [content |-> NoInformationFound,
     metadata |-> [retrieval_method |-> method, chunks_used |-> 0,
                   checklist_generated |-> FALSE, error |-> ""]]

\* the AgentResponse of run when there are no chunks
NoChunksResponse(method) ==
    [content |-> NoInformationFound,
     metadata |-> [retrieval_method |-> method, chunks_used |-> 0,
                   checklist_generated |-> FALSE, error |-> "no_chunks_found"]]

\* run up to the no-chunks validation: the retrieval tool's call and the
\* refusal when it found nothing
AsistenteRun(uc, res) ==
    /\ a_pc = "idle"
    /\ res \in RetrievalResults(agentic_rag)
    /\ use_checklist' = uc
    /\ a_log' = Append(a_log, [call |-> "retrieval",
                               top_k |-> TopKArgument(agentic_rag)])
    /\ IF res.kind = "raise"
       THEN /\ a_pc' = "raised"
            /\ a_error' = "retrieval"
            /\ UNCHANGED <<a_retrieval, a_response>>
       ELSE /\ a_retrieval' = <<res>>
            /\ a_error' = "none"
            /\ IF res.chunks = <<>>
               THEN /\ a_pc' = "returned"
                    /\ a_response' = <<NoChunksResponse(res.method)>>
               ELSE /\ a_pc' = IF uc THEN "classify" ELSE "generate"
                    /\ UNCHANGED a_response
    /\ UNCHANGED agentic_rag
    /\ UNCHANGED <<bvars, rvars, ivars, tvars>>

\* the intent classification and the checklist step: the chunks are dicts,
\* so chunk.page_content raises AttributeError before the checklist tool
\* is called
Classify(resp) ==
    /\ a_pc = "classify"
    /\ a_log' = Append(a_log, [call |-> "classify", top_k |-> 0])
    /\ LET classification == classify(resp)
       IN IF classification.type # "dict"
          THEN a_pc' = "raised" /\ a_error' = "TypeError"
          ELSE IF "needs_checklist" \notin DOMAIN classification.fields
          THEN a_pc' = "raised" /\ a_error' = "KeyError"
          ELSE IF classification.fields.needs_checklist
                  /\ a_retrieval[1].chunks # <<>>
          THEN a_pc' = "raised" /\ a_error' = "AttributeError"
          ELSE a_pc' = "generate" /\ a_error' = "none"
    /\ UNCHANGED <<agentic_rag, use_checklist, a_retrieval, a_response>>
    /\ UNCHANGED <<bvars, rvars, ivars, tvars>>

\* _generate_response and the final AgentResponse (checklist is None here)
Generate(resp) ==
    /\ a_pc = "generate"
    /\ a_log' = Append(a_log, [call |-> "generate", top_k |-> 0])
    /\ IF resp.kind = "raise"
       THEN /\ a_pc' = "raised"
            /\ a_error' = "gateway"
            /\ UNCHANGED a_response
       ELSE /\ a_pc' = "returned"
            /\ a_error' = "none"
            /\ a_response' =
                 <<[content |-> Strip(resp.text),
                    metadata |->
                      [retrieval_method |-> a_retrieval[1].method,
                       chunks_used |-> Len(a_retrieval[1].chunks),
                       checklist_generated |-> FALSE,
                       chunks |-> a_retrieval[1].chunks]]>>
    /\ UNCHANGED <<agentic_rag, use_checklist, a_retrieval>>
    /\ UNCHANGED <<bvars, rvars, ivars, tvars>>

\* the assistant at rest, for the other specifications
AIdle == AInit /\ agentic_rag = FALSE

(***************************************************************************)
(* Properties of AgenteAsistente.run                                       *)
(***************************************************************************)
CallsOf(kind) == {j \in 1..Len(a_log) : a_log[j].call = kind}

\* C14: whenever the retrieval result has no chunks, run returns the fixed
\* refusal with error = no_chunks_found and chunks_used = 0, and issues no
\* intent-classification, checklist or answer-generation call.
C14_NoChunksRefusesWithoutGateway ==
    (a_retrieval # <<>> /\ a_retrieval[1].chunks = <<>>) =>
        /\ a_pc = "returned"
        /\ a_response[1].content = NoInformationFound
        /\ a_response[1].metadata.error = "no_chunks_found"
        /\ a_response[1].metadata.chunks_used = 0
        /\ CallsOf("classify") = {}
        /\ CallsOf("generate") = {}
        /\ Len(a_log) = 1

\* the judge retrieval found nothing and run refused
C14_Witness ==
    /\ a_pc = "returned"
    /\ agentic_rag
    /\ a_retrieval[1].chunks = <<>>
    /\ a_retrieval[1].method = "agent_rag"
    /\ a_response[1].metadata.retrieval_method = "agent_rag"
    /\ a_log = <<[call |-> "retrieval", top_k |-> 3]>>

(***************************************************************************)
(* SQLQueryTool (src/tools/sql_query_tool.py)                              *)
(* A query is the sequence of its tokens as typed; each token also carries *)
(* what it is in the statement (role), which the tool never looks at.      *)
(***************************************************************************)
MaxCalls == 2

\* f"{MAX_SQL_ROWS}"
MaxSqlRowsText == "100"

ALLOWED_TABLES ==
    {"afiliados", "aportes", "traspasos", "reclamos", "beneficiarios",
     "pensiones", "movimientos", "empleadores", "vista_resumen_afiliado",
     "vista_empleadores_morosos"}

\* ALLOWED_COLUMNS of the tables the queries below name
ALLOWED_COLUMNS ==
    [t \in {"afiliados", "aportes"} |->
        IF t = "afiliados"
        THEN {"rut", "nombre", "apellido_paterno", "apellido_materno",
              "email", "telefono", "fecha_nacimiento", "fecha_afiliacion",
              "estado", "tipo_afiliado", "empleador", "renta_imponible",
              "fondo_actual", "saldo_obligatorio", "saldo_voluntario"}
        ELSE {"id", "afiliado_rut", "periodo", "monto", "fecha_pago",
              "tipo", "estado", "empleador", "comision", "seguro",
              "descripcion"}]

FORBIDDEN_SQL_KEYWORDS ==
    {"DROP", "DELETE", "UPDATE", "INSERT", "ALTER", "CREATE", "TRUNCATE",
     "EXEC", "EXECUTE", "--", "/*"}

\* the words with letters that occur, as <<lower case, upper case>>
CasePairs ==
    {<<"select", "SELECT">>, <<"from", "FROM">>, <<"where", "WHERE">>,
     <<"limit", "LIMIT">>, <<"delete", "DELETE">>, <<"drop", "DROP">>,
     <<"table", "TABLE">>, <<"afiliados", "AFILIADOS">>,
     <<"aportes", "APORTES">>, <<"usuarios", "USUARIOS">>,
     <<"rut", "RUT">>, <<"nombre", "NOMBRE">>, <<"clave", "CLAVE">>,
     <<"origen", "ORIGEN">>, <<"updated_at", "UPDATED_AT">>,
     <<"'aportes'", "'APORTES'">>, <<"'limit'", "'LIMIT'">>,
     <<"'12.345.678-k'", "'12.345.678-K'">>,
     <<"'12345678-k'", "'12345678-K'">>}

\* str.upper() and str.lower() of a token
ToUpper(s) ==
    IF \E p \in CasePairs : p[1] = s
    THEN (CHOOSE p \in CasePairs : p[1] = s)[2] ELSE s

ToLower(s) ==
    IF \E p \in CasePairs : p[2] = s
    THEN (CHOOSE p \in CasePairs : p[2] = s)[1] ELSE s

\* the proper substrings that matter: <<token, word inside it>>
Substrings ==
    {<<"UPDATED_AT", "UPDATE">>, <<"'aportes'", "aportes">>,
     <<"'LIMIT'", "LIMIT">>}

\* word in text
Contains(text, word) == text = word \/ <<text, word>> \in Substrings

Tok(text, role) == [text |-> text, role |-> role]

\* the query arguments the model gives execute
SqlQueries ==
    {<<Tok("select", "select"), Tok("*", "star"), Tok("from", "from"),
       Tok("afiliados", "table")>>,
     <<Tok("SELECT", "select"), Tok("rut", "column"), Tok("FROM", "from"),
       Tok("afiliados", "table"), Tok("LIMIT", "limit"), Tok("5", "number")>>,
     <<Tok("SELECT", "select"), Tok("nombre", "column"), Tok("FROM", "from"),
       Tok("afiliados", "table"), Tok("WHERE", "where"), Tok("rut", "column"),
       Tok("=", "op"), Tok("'12.345.678-k'", "literal"), Tok(";", "end")>>,
     <<Tok("DELETE", "delete"), Tok("FROM", "from"),
       Tok("afiliados", "table")>>,
     <<Tok("SELECT", "select"), Tok("*", "star"), Tok("FROM", "from"),
       Tok("afiliados", "table"), Tok(";", "end"), Tok("DROP", "drop"),
       Tok("TABLE", "other"), Tok("aportes", "table")>>,
     <<Tok("SELECT", "select"), Tok("*", "star"), Tok("FROM", "from"),
       Tok("usuarios", "table")>>,
     <<Tok("SELECT", "select"), Tok("updated_at", "column"),
       Tok("FROM", "from"), Tok("afiliados", "table")>>,
     <<Tok("SELECT", "select"), Tok("clave", "column"), Tok("FROM", "from"),
       Tok("usuarios", "table"), Tok("WHERE", "where"),
       Tok("origen", "column"), Tok("=", "op"), Tok("'aportes'", "literal")>>,
     <<Tok("SELECT", "select"), Tok("clave", "column"), Tok("FROM", "from"),
       Tok("afiliados", "table")>>,
     <<Tok("SELECT", "select"), Tok("nombre", "column"), Tok("FROM", "from"),
       Tok("afiliados", "table"), Tok("WHERE", "where"),
       Tok("nombre", "column"), Tok("=", "op"), Tok("'limit'", "literal")>>}

\* normalize_rut on a quoted RUT: the dots removed
normalize_rut(text) == IF text = "'12.345.678-k'" THEN "'12345678-k'" ELSE text

\* _normalize_ruts_in_query
_normalize_ruts_in_query(query) ==
    [i \in 1..Len(query) |-> Tok(normalize_rut(query[i].text), query[i].role)]

\* keyword in query_upper / table in query_lower
InQueryUpper(query, word) ==
    \E i \in 1..Len(query) : Contains(ToUpper(query[i].text), word)

InQueryLower(query, word) ==
    \E i \in 1..Len(query) : Contains(ToLower(query[i].text), word)

\* SQLValidator.validate
validate(query) ==
    IF query = <<>> \/ ToUpper(query[1].text) # "SELECT"
    THEN [is_safe |-> FALSE, error |-> "Solo consultas SELECT permitidas"]
    ELSE IF \E w \in FORBIDDEN_SQL_KEYWORDS : InQueryUpper(query, w)
    THEN [is_safe |-> FALSE, error |-> "Keyword prohibido"]
    ELSE IF ~\E t \in ALLOWED_TABLES : InQueryLower(query, t)
    THEN [is_safe |-> FALSE, error |-> "Tabla no permitida"]
    ELSE [is_safe |-> TRUE, error |-> "OK"]

\* query.rstrip(';')
RECURSIVE RStripSemicolon(_)
RStripSemicolon(query) ==
    IF query # <<>> /\ query[Len(query)].text = ";"
    THEN RStripSemicolon(SubSeq(query, 1, Len(query) - 1))
    ELSE query

\* the statement execute sends: LIMIT MAX_SQL_ROWS appended when "LIMIT" is
\* not in query.upper()
WithLimit(query) ==
    IF InQueryUpper(query, "LIMIT") THEN query
    ELSE RStripSemicolon(query)
         \o <<Tok("LIMIT", "limit"), Tok(MaxSqlRowsText, "number")>>

RejectedResult(error, query) ==
    [error |-> error, query |-> query, results |-> <<>>, count |-> 0]

\* what conn.fetch gives: rows, or an exception (caught by execute)
DbReplies == {[kind |-> "rows", rows |-> n] : n \in 0..2} \cup {[kind |-> "raise"]}

SqlInit ==
    /\ t_calls = 0
    /\ sql_pending = <<>>
    /\ sql_sent = <<>>
    /\ t_result = <<>>

\* execute up to conn.fetch: normalization, validation, the row limit
SqlExecute(q) ==
    /\ t_calls < MaxCalls
    /\ sql_pending = <<>>
    /\ t_calls' = t_calls + 1
    /\ LET query == _normalize_ruts_in_query(q)
           v == validate(query)
       IN IF ~v.is_safe
          THEN /\ t_result' = <<RejectedResult(v.error, query)>>
               /\ UNCHANGED <<sql_pending, sql_sent>>
          ELSE /\ sql_pending' = <<WithLimit(query)>>
               /\ sql_sent' = Append(sql_sent, WithLimit(query))
               /\ t_result' = <<>>
    /\ UNCHANGED <<fs, opened, gvars>>
    /\ UNCHANGED <<bvars, rvars, ivars, avars>>

\* the rest of execute: the rows, or the exception turned into an error
DbReply(reply) ==
    /\ sql_pending # <<>>
    /\ t_result' =
         IF reply.kind = "raise"
         THEN <<RejectedResult("database", sql_pending[1])>>
         ELSE <<[query |-> sql_pending[1],
                 results |-> [i \in 1..reply.rows |-> i],
                 count |-> reply.rows]>>
    /\ sql_pending' = <<>>
    /\ UNCHANGED <<t_calls, sql_sent, fs, opened, gvars>>
    /\ UNCHANGED <<bvars, rvars, ivars, avars>>

(***************************************************************************)
(* ListDocumentsTool and ReadDocumentTool                                  *)
(* (src/tools/document_search_tool.py)                                     *)
(* A path is the sequence of its components; a file of the base directory  *)
(* is a regular file or a symbolic link to a file inside or outside it.    *)
(***************************************************************************)
File(dir, name, ext, link) ==
    [dir |-> dir, name |-> name, ext |-> ext, link |-> link]

Certificado == File(<<>>, "certificado.txt", ".txt", "none")

Reclamo == File(<<"sub">>, "reclamo.txt", ".txt", "none")

Enlace == File(<<>>, "enlace.txt", ".txt", "outside")

Nota == File(<<"sub">>, "nota.txt", ".txt", "outside")

Pension == File(<<>>, "pension.pdf", ".pdf", "none")

Copia == File(<<"sub">>, "copia.txt", ".txt", "inside")

FileSystems ==
    {[exists |-> FALSE, files |-> {}],
     [exists |-> TRUE, files |-> {}],
     [exists |-> TRUE, files |-> {Certificado, Reclamo, Pension}],
     [exists |-> TRUE, files |-> {Certificado, Enlace}],
     [exists |-> TRUE, files |-> {Certificado, Reclamo, Nota, Copia}],
     [exists |-> TRUE,
      files |-> {Certificado, Reclamo, Enlace, Nota, Pension, Copia}]}

\* the filename arguments the model gives read_document
Filenames ==
    {<<"certificado.txt">>, <<"reclamo.txt">>, <<"sub", "reclamo.txt">>,
     <<"enlace.txt">>, <<"nota.txt">>, <<"sub", "nota.txt">>,
     <<"copia.txt">>, <<"pension.pdf">>, <<"falta.txt">>,
     <<"..", "secreto.txt">>, <<"/", "etc", "passwd">>,
     <<"sub", "..", "..", "secreto.txt">>}

FILE_EXTENSIONS ==
    [t \in {"pdf", "txt", "docx"} |->
        IF t = "pdf" THEN {".pdf"}
        ELSE IF t = "txt" THEN {".txt"} ELSE {".docx", ".doc"}]

\* the path with its ".." components applied, from the base directory;
\* inside is FALSE when it climbs above the base directory or is absolute
RECURSIVE Normalize(_, _)
Normalize(rest, acc) ==
    IF rest = <<>> THEN [inside |-> TRUE, comps |-> acc]
    ELSE IF Head(rest) = "/" THEN [inside |-> FALSE, comps |-> <<>>]
    ELSE IF Head(rest) = ".."
    THEN IF acc = <<>> THEN [inside |-> FALSE, comps |-> <<>>]
         ELSE Normalize(Tail(rest), SubSeq(acc, 1, Len(acc) - 1))
    ELSE Normalize(Tail(rest), Append(acc, Head(rest)))

FilesAt(files, comps) == {f \in files : f.dir \o <<f.name>> = comps}

\* is (self.base_path / path).resolve() inside the base directory: resolve
\* applies ".." and follows the symbolic link the path names
ResolvesInside(files, path) ==
    LET n == Normalize(path, <<>>)
    IN /\ n.inside
       /\ \A f \in FilesAt(files, n.comps) : f.link # "outside"

\* PathValidator.validate
PathValidate(files, path) == ResolvesInside(files, path)

\* os.walk order: the base directory before its subdirectory, by name
WalkOrder ==
    <<"certificado.txt", "enlace.txt", "pension.pdf", "copia.txt",
      "nota.txt", "reclamo.txt">>

WalkRank(name) == CHOOSE i \in 1..Len(WalkOrder) : WalkOrder[i] = name

\* the first file named filename that os.walk meets, <<>> if there is none
WalkFind(files, filename) ==
    LET named == {f \in files : Len(filename) = 1 /\ f.name = filename[1]}
    IN IF named = {} THEN <<>>
       ELSE <<CHOOSE f \in named :
                \A g \in named : WalkRank(f.name) <= WalkRank(g.name)>>

\* ReadDocumentTool.execute: the file it opens (<<>> if none) and its result
ReadDocumentExecute(files, filename) ==
    IF ~PathValidate(files, filename)
    THEN [opens |-> <<>>, result |-> [error |-> "path", filename |-> filename]]
    ELSE LET n == Normalize(filename, <<>>)
             direct == FilesAt(files, n.comps)
             found == IF direct # {} THEN <<CHOOSE f \in direct : TRUE>>
                      ELSE WalkFind(files, filename)
         IN IF found = <<>>
            THEN [opens |-> <<>>,
                  result |-> [error |-> "no encontrado", filename |-> filename]]
            ELSE IF found[1].ext = ".txt"
            THEN [opens |-> found,
                  result |-> [filename |-> filename, content |-> found[1]]]
            ELSE [opens |-> <<>>,
                  result |-> [error |-> "solo txt", filename |-> filename]]

\* the filter patterns the model gives list_documents, and which names a
\* pattern is found in ("" filters nothing)
FilterPatterns == {"", "nota", "pension"}

PatternSearch(pattern, name) ==
    <<pattern, name>> \in {<<"nota", "nota.txt">>, <<"pension", "pension.pdf">>}

FileTypes == {"all", "txt", "zip"}

\* the extensions list_documents filters by ({}: no filter)
ExtensionsOf(file_type) ==
    IF file_type = "all" THEN UNION {FILE_EXTENSIONS[t] : t \in DOMAIN FILE_EXTENSIONS}
    ELSE IF file_type \in DOMAIN FILE_EXTENSIONS THEN FILE_EXTENSIONS[file_type]
    ELSE {}

\* the files list_documents keeps
Listed(files, filter_pattern, file_type) ==
    {f \in files :
        /\ ExtensionsOf(file_type) = {} \/ f.ext \in ExtensionsOf(file_type)
        /\ filter_pattern = "" \/ PatternSearch(filter_pattern, f.name)
        /\ PathValidate(files, f.dir \o <<f.name>>)}

\* documents.sort(key=filename): the names in order
NameOrder ==
    <<"certificado.txt", "copia.txt", "enlace.txt", "nota.txt",
      "pension.pdf", "reclamo.txt">>

SortedNames(kept) ==
    SelectSeq(NameOrder, LAMBDA name : \E f \in kept : f.name = name)

\* ListDocumentsTool.execute
ListDocumentsExecute(dir, filter_pattern, file_type) ==
    IF ~dir.exists
    THEN [error |-> "Directorio de documentos no existe", documents |-> <<>>,
          count |-> 0]
    ELSE LET kept == Listed(dir.files, filter_pattern, file_type)
         IN [file_type |-> file_type, documents |-> SortedNames(kept),
             count |-> Len(SortedNames(kept))]

DocsInit ==
    /\ fs \in FileSystems
    /\ opened = <<>>

ReadDocument(filename) ==
    /\ t_calls < MaxCalls
    /\ sql_pending = <<>>
    /\ t_calls' = t_calls + 1
    /\ LET r == ReadDocumentExecute(fs.files, filename)
       IN /\ opened' = opened \o r.opens
          /\ t_result' = <<r.result>>
    /\ UNCHANGED <<sql_pending, sql_sent, fs, gvars>>
    /\ UNCHANGED <<bvars, rvars, ivars, avars>>

ListDocuments(filter_pattern, file_type) ==
    /\ t_calls < MaxCalls
    /\ sql_pending = <<>>
    /\ t_calls' = t_calls + 1
    /\ t_result' = <<ListDocumentsExecute(fs, filter_pattern, file_type)>>
    /\ UNCHANGED <<sql_pending, sql_sent, fs, opened, gvars>>
    /\ UNCHANGED <<bvars, rvars, ivars, avars>>

(***************************************************************************)
(* ModelProvider's tool registry (src/framework/model_provider.py) and the  *)
(* agents that register their tools on construction                        *)
(* A tool instance is known by its name, the agent that holds it and the   *)
(* attribute it is held in.                                                *)
(***************************************************************************)
MaxAgents == 2

\* the tools lists AgenteGenerico may be given, by tool name
GenericTools ==
    {<<>>, <<"calculate">>, <<"calculate", "finish">>,
     <<"finish", "calculate", "finish">>}

\* the Tool attributes of an AgenteBuscador, in dir() order
BuscadorTools(owner) ==
    <<[name |-> "finish", owner |-> owner, attr |-> "finish_tool"],
      [name |-> "list_documents", owner |-> owner, attr |-> "list_docs_tool"],
      [name |-> "read_document", owner |-> owner, attr |-> "read_doc_tool"],
      [name |-> "sql_query", owner |-> owner, attr |-> "sql_tool"]>>

\* the Tool attributes of an AgenteGenerico: tool_0, tool_1, ...
GenericoTools(owner, tools) ==
    [i \in 1..Len(tools) |->
        [name |-> tools[i], owner |-> owner, attr |-> <<"tool_", i - 1>>]]

\* the function names the Gateway may answer an action step with
FunctionNames ==
    {"finish", "list_documents", "read_document", "sql_query", "calculate",
     "get_weather"}

\* self._registered_tools[tool_def.name] = attr
SetItem(reg, key, value) ==
    [x \in DOMAIN reg \cup {key} |-> IF x = key THEN value ELSE reg[x]]

RECURSIVE RegisterAll(_, _)
RegisterAll(reg, tools) ==
    IF tools = <<>> THEN reg
    ELSE RegisterAll(SetItem(reg, Head(tools).name, Head(tools)), Tail(tools))

\* a register_tools that starts from an empty registry
register_tools_Replacing(reg, tools) == RegisterAll(<<>>, tools)

\* register_tools(agent): every Tool attribute of the agent, in dir() order
register_tools(reg, tools) == RegisterAll(reg, tools)

GInit ==
    /\ _registered_tools = <<>>
    /\ agents = <<>>
    /\ dispatched = <<>>

\* an agent's __init__: keep the provider and the tools, register the tools
Construct(kind, tools) ==
    /\ Len(agents) < MaxAgents
    /\ agents' = Append(agents, [kind |-> kind, tools |-> tools, live |-> TRUE])
    /\ _registered_tools' = register_tools(_registered_tools, tools)
    /\ UNCHANGED dispatched
    /\ UNCHANGED <<t_calls, sql_pending, sql_sent, t_result, fs, opened>>
    /\ UNCHANGED <<bvars, rvars, ivars, avars>>

\* AgenteBuscador(model_provider, sql_tool, list_docs_tool, read_doc_tool,
\* finish_tool)
NewBuscador ==
    Construct("buscador", BuscadorTools(Len(agents) + 1))

\* AgenteGenerico(model_provider, system_prompt, tools)
NewGenerico(tools) ==
    Construct("generico", GenericoTools(Len(agents) + 1, tools))

\* clear_tools(); what was registered before it is registered no more
ClearTools ==
    /\ _registered_tools # <<>>
    /\ _registered_tools' = <<>>
    /\ agents' = [i \in 1..Len(agents) |-> [agents[i] EXCEPT !.live = FALSE]]
    /\ UNCHANGED dispatched
    /\ UNCHANGED <<t_calls, sql_pending, sql_sent, t_result, fs, opened>>
    /\ UNCHANGED <<bvars, rvars, ivars, avars>>

\* the action step of agent a's loop: generate with tools registered, the
\* Gateway answering with a function call of the given name
\* (_handle_response_with_tools)
Dispatch(a, tool_name) ==
    /\ a \in 1..Len(agents)
    /\ _registered_tools # <<>>
    /\ dispatched' =
         IF tool_name \in DOMAIN _registered_tools
         THEN <<[agent |-> a, tool_name |-> tool_name, raised |-> "none",
                 tool |-> <<_registered_tools[tool_name]>>]>>
         ELSE <<[agent |-> a, tool_name |-> tool_name, raised |-> "ValueError",
                 tool |-> <<>>]>>
    /\ UNCHANGED <<_registered_tools, agents>>
    /\ UNCHANGED <<t_calls, sql_pending, sql_sent, t_result, fs, opened>>
    /\ UNCHANGED <<bvars, rvars, ivars, avars>>

(***************************************************************************)
(* Properties of the provider's tool registry                              *)
(***************************************************************************)
\* the tool instances agents registered since the registry was last
\* emptied, as <<agent, position among the agent's tools, instance>>
LiveRegistrations ==
    UNION {{<<a, i, agents[a].tools[i]>> : i \in 1..Len(agents[a].tools)} :
           a \in {b \in 1..Len(agents) : agents[b].live}}

\* r was registered after q
Later(r, q) == r[1] > q[1] \/ (r[1] = q[1] /\ r[2] > q[2])

\* the registry holds, for every name registered since it was last emptied,
\* the instance registered last under that name, and nothing else
LastRegistrationWins ==
    /\ DOMAIN _registered_tools = {r[3].name : r \in LiveRegistrations}
    /\ \A r \in LiveRegistrations :
          (\A q \in LiveRegistrations : q[3].name = r[3].name => ~Later(q, r))
              => _registered_tools[r[3].name] = r[3]

\* a dispatched function call runs the registry's instance of that name,
\* whichever agent's loop issued it
DispatchIgnoresCaller ==
    dispatched # <<>> /\ dispatched[1].raised = "none"
        => /\ dispatched[1].tool # <<>>
           /\ dispatched[1].tool[1].name = dispatched[1].tool_name
           /\ dispatched[1].tool[1].owner \in 1..Len(agents)

\* C30: the registry is shared by the agents of one provider: a step that
\* is not clear_tools removes no name from it, a registration changes only
\* the names of the new agent's tools, each name maps to the instance
\* registered last under it, and an action step runs the registry's
\* instance of the called name whichever agent issued the call
C30_RegistrySharedLastRegistrationWins ==
    /\ [](LastRegistrationWins /\ DispatchIgnoresCaller)
    /\ [][/\ (_registered_tools' = <<>> /\ _registered_tools # <<>>)
             \/ DOMAIN _registered_tools \subseteq DOMAIN _registered_tools'
          /\ Len(agents') > Len(agents)
             => \A n \in DOMAIN _registered_tools :
                   _registered_tools'[n] # _registered_tools[n]
                       => _registered_tools'[n].owner = Len(agents')
          /\ dispatched' # dispatched /\ dispatched'[1].raised = "none"
             => dispatched'[1].tool = <<_registered_tools[dispatched'[1].tool_name]>>]_vars

\* two agents on one provider, the first one's action step dispatched to an
\* instance the second registered under a name both have
C30_Witness ==
    /\ Len(agents) = 2
    /\ dispatched # <<>>
    /\ dispatched[1].agent = 1
    /\ dispatched[1].raised = "none"
    /\ dispatched[1].tool[1].owner = 2
    /\ \E i \in 1..Len(agents[1].tools) :
          agents[1].tools[i].name = dispatched[1].tool_name

\* the tools at rest, for the other specifications
TIdle ==
    /\ SqlInit
    /\ fs = [exists |-> FALSE, files |-> {}]
    /\ opened = <<>>
    /\ GInit

(***************************************************************************)
(* Properties of the tools                                                 *)
(***************************************************************************)
TablesOf(stmt) == {stmt[i].text : i \in {j \in 1..Len(stmt) : stmt[j].role = "table"}}

ColumnsOf(stmt) == {stmt[i].text : i \in {j \in 1..Len(stmt) : stmt[j].role = "column"}}

RolesOf(stmt) == {stmt[i].role : i \in 1..Len(stmt)}

AllowedColumnsOf(tables) ==
    UNION {ALLOWED_COLUMNS[t] : t \in tables \cap DOMAIN ALLOWED_COLUMNS}

\* C15: every statement execute sends to the database is a SELECT, holds no
\* forbidden keyword, names only tables and columns of the allow-lists and
\* has a row limit; a statement the validator rejects gives a result with an
\* error, count 0 and nothing sent.
C15_OnlySafeStatementsReachDatabase ==
    /\ \A i \in 1..Len(sql_sent) :
          LET stmt == sql_sent[i]
          IN /\ stmt[1].role = "select"
             /\ RolesOf(stmt) \cap {"delete", "drop"} = {}
             /\ ~\E w \in FORBIDDEN_SQL_KEYWORDS : InQueryUpper(stmt, w)
             /\ TablesOf(stmt) \subseteq ALLOWED_TABLES
             /\ ColumnsOf(stmt) \subseteq AllowedColumnsOf(TablesOf(stmt))
             /\ "limit" \in RolesOf(stmt)
    /\ (t_result # <<>> /\ "error" \in DOMAIN t_result[1]
           /\ "results" \in DOMAIN t_result[1]) =>
          /\ t_result[1].count = 0
          /\ t_result[1].results = <<>>

\* C16: read_document never opens a file that resolves outside the base
\* directory, a filename that resolves outside it gives an error result, and
\* list_documents never lists a file that resolves outside it.
C16_NothingOutsideBaseIsOpenedOrListed ==
    /\ \A i \in 1..Len(opened) : opened[i].link # "outside"
    /\ (t_result # <<>> /\ "filename" \in DOMAIN t_result[1]
           /\ ~ResolvesInside(fs.files, t_result[1].filename)) =>
          "error" \in DOMAIN t_result[1]
    /\ (t_result # <<>> /\ "documents" \in DOMAIN t_result[1]) =>
          \A i \in 1..Len(t_result[1].documents) :
              \A f \in fs.files :
                  f.name = t_result[1].documents[i] => f.link # "outside"

\* everything but the ReAct loop and the retrieval at rest
XIdle == IIdle /\ AIdle /\ TIdle

Init == BInit /\ RIdle /\ XIdle

Next ==
    \/ RunStart
    \/ \E p \in PlanResponses, a \in ActResponses : Iterate(p, a)

\* AgenteBuscador.run
Spec == Init /\ [][Next]_vars

RetrievalInit == RInit /\ BIdle /\ XIdle

RetrievalNext ==
    \/ \E kk \in 0..MaxK : Retrieve(kk)
    \/ \E i \in 1..MaxDocs, resp \in JudgeResponses : EvaluationDone(i, resp)
    \/ Rank
    \/ RetrieveWithIndex
    \/ \E resp \in Phase1Responses : Phase1(resp)
    \/ \E resp \in Phase2Responses : Phase2(resp)
    \/ \E resp \in {GatewayRaise, GatewayText("plain", NoJson)} : Phase3(resp)

\* AgentRetrieval.retrieve and retrieve_with_index
RetrievalSpec == RetrievalInit /\ [][RetrievalNext]_vars

IndexerInit == IInit /\ BIdle /\ RIdle /\ AIdle /\ TIdle

IndexerNext ==
    \/ \E bs \in BatchSizes : IndexDocument(bs)
    \/ \E re \in BOOLEAN : JobRun(re)
    \/ \E resp \in SummaryResponses : SummarizeBatch(resp)
    \/ \E resp \in SummaryResponses : SummarizeDocument(resp)

\* AgentRAGIndexer.index_document and the bulk indexing job
IndexerSpec == IndexerInit /\ [][IndexerNext]_vars

AsistenteInit == AInit /\ BIdle /\ RIdle /\ IIdle /\ TIdle

AsistenteNext ==
    \/ \E uc \in BOOLEAN, res \in RetrievalResults(TRUE) \cup RetrievalResults(FALSE) :
          AsistenteRun(uc, res)
    \/ \E resp \in ClassifierResponses : Classify(resp)
    \/ \E resp \in {GatewayRaise} \cup {[kind |-> "text", text |-> t] : t \in Texts} :
          Generate(resp)

\* AgenteAsistente.run
AsistenteSpec == AsistenteInit /\ [][AsistenteNext]_vars

SqlToolInit ==
    /\ SqlInit
    /\ fs = [exists |-> FALSE, files |-> {}]
    /\ opened = <<>>
    /\ GInit
    /\ BIdle /\ RIdle /\ IIdle /\ AIdle

SqlToolNext ==
    \/ \E q \in SqlQueries : SqlExecute(q)
    \/ \E reply \in DbReplies : DbReply(reply)

\* SQLQueryTool.execute
SqlToolSpec == SqlToolInit /\ [][SqlToolNext]_vars

DocumentToolsInit ==
    /\ SqlInit
    /\ DocsInit
    /\ GInit
    /\ BIdle /\ RIdle /\ IIdle /\ AIdle

DocumentToolsNext ==
    \/ \E filename \in Filenames : ReadDocument(filename)
    \/ \E p \in FilterPatterns, ft \in FileTypes : ListDocuments(p, ft)

\* ReadDocumentTool.execute and ListDocumentsTool.execute
DocumentToolsSpec == DocumentToolsInit /\ [][DocumentToolsNext]_vars

RegistryInit ==
    /\ GInit
    /\ SqlInit
    /\ fs = [exists |-> FALSE, files |-> {}]
    /\ opened = <<>>
    /\ BIdle /\ RIdle /\ IIdle /\ AIdle

RegistryNext ==
    \/ NewBuscador
    \/ \E tools \in GenericTools : NewGenerico(tools)
    \/ ClearTools
    \/ \E a \in 1..MaxAgents, tool_name \in FunctionNames : Dispatch(a, tool_name)

\* the tool registry of one ModelProvider and the agents built on it
RegistrySpec == RegistryInit /\ [][RegistryNext]_vars

====
